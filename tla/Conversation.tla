---------------------------- MODULE Conversation ----------------------------
(***************************************************************************)
(* What the two people of a conversation are promised about the messages   *)
(* they write, whatever happens to their devices, their connections and    *)
(* the relay.  A message is a draft, may be offered for sending again, is  *)
(* sent, and is confirmed at most once and for good; the other side sees   *)
(* it at most once, only after it was sent, and a confirmed message is one *)
(* the other side took, on the screen or withheld by the verification      *)
(* gate.  Delivery.tla implements it.                                      *)
(***************************************************************************)
CONSTANT Messages

VARIABLES
  status, \* what the author sees of each message
  taken   \* the messages the other side has on its screen, or withheld

vars == <<status, taken>>

Statuses == {"draft", "offered", "sent", "confirmed"}

Init == status = [m \in Messages |-> "draft"] /\ taken = {}

(* Offered: not sent, or the copy that was sent may be lost.               *)
Offer(m) ==
  /\ status[m] \in {"draft", "sent"}
  /\ status' = [status EXCEPT ![m] = "offered"]
  /\ UNCHANGED taken

(* The relay has it.  An author's second attempt at a message starts from  *)
(* the offer only.                                                         *)
Send(m) ==
  /\ status[m] = "offered"
  /\ status' = [status EXCEPT ![m] = "sent"]
  /\ UNCHANGED taken

(* The other side gets it: also one that its author was told is not sent.  *)
Take(m) ==
  /\ status[m] # "draft" /\ m \notin taken
  /\ taken' = taken \union {m}
  /\ UNCHANGED status

(* One acknowledgement may confirm several messages.                       *)
Confirm(ms) ==
  /\ ms # {} /\ ms \subseteq taken
  /\ \A m \in ms : status[m] \in {"offered", "sent"}
  /\ status' = [m \in Messages |-> IF m \in ms THEN "confirmed" ELSE status[m]]
  /\ UNCHANGED taken

(* A chat both carries a message and confirms others.                      *)
TakeAndConfirm(m, ms) ==
  /\ status[m] # "draft" /\ m \notin taken /\ taken' = taken \union {m}
  /\ ms # {} /\ ms \subseteq taken
  /\ \A c \in ms : status[c] \in {"offered", "sent"}
  /\ status' = [c \in Messages |-> IF c \in ms THEN "confirmed" ELSE status[c]]

Next ==
  \/ \E m \in Messages : Offer(m) \/ Send(m) \/ Take(m)
  \/ \E ms \in SUBSET Messages :
       Confirm(ms) \/ \E m \in Messages : TakeAndConfirm(m, ms)

Spec == Init /\ [][Next]_vars
=============================================================================
