--------------------------- MODULE HeynowPayload ---------------------------
(***************************************************************************)
(* What the chat provider sends, and the event that is made of it          *)
(* (payloads/heynow.py).  A payload is nested dictionaries of JSON: here a *)
(* function of the keys that it has, whose values may be missing.  Names,  *)
(* texts and MIME types are left out.                                      *)
(***************************************************************************)
CONSTANTS
  Payload,   \* the payloads of the provider
  Label,     \* HeynowChannelType: the label of each number of a kind of channel
  Unknown,   \* the label of any other number
  NoSender,  \* a payload without clientId
  NoSession, \* a payload without session
  NoId       \* a payload without idMessageHey: it gets a uuid at each reading

(* dict.get, with a default. *)
Given(dict, key, default) == IF key \in DOMAIN dict THEN dict[key] ELSE default

(* from_int: some numbers have the same label. *)
ChannelLabel(p) == Given(Label, Given(p, "channel", 0), Unknown)

(* _formatter_files: a file with its data, with the address to fetch it    *)
(* from, with both or with neither.                                        *)
FormatterFiles(p) ==
  {[name |-> Given(f, "name", ""), datas |-> "data" \in DOMAIN f, url |-> "urlFileshare" \in DOMAIN f] :
     f \in Given(p, "temporal", {})}

(* _get_message: the message is known by the identifier of the provider. *)
MessageId(p) == Given(p, "idMessageHey", NoId)

(* _calculate_is_incoming: only what says that it is incoming is so. *)
IsIncoming(p) == Given(p, "incoming", FALSE)

(* extract. *)
Extract(p) ==
  [id |-> MessageId(p), sender |-> Given(p, "clientId", NoSender),
   session |-> Given(p, "session", NoSession), channel |-> ChannelLabel(p),
   incoming |-> IsIncoming(p), files |-> FormatterFiles(p)]

Event == {Extract(p) : p \in Payload}
=============================================================================
