----------------------------- MODULE ByteChannel -----------------------------
(***************************************************************************)
(* What a byte queue promises its users: a bounded first-in first-out      *)
(* channel.  A writer offers bytes, the channel accepts them in order, as  *)
(* many at a time as fit, and a reader receives them in the order they     *)
(* were accepted.  Shutting the channel stops both directions: what was    *)
(* not accepted is refused, what was not received stays behind.            *)
(* There are no threads, locks or indices here; ByteQueue implements it.   *)
(***************************************************************************)
EXTENDS Integers, Sequences

CONSTANTS Writers,   \* whoever may offer bytes
          Offers,    \* the non-empty byte sequences a writer may offer
          Capacity   \* how many bytes the channel holds

VARIABLES open,      \* FALSE once the channel is shut
          unsent,    \* per writer, the offered bytes not accepted yet
          content,   \* accepted and not received yet
          received   \* everything received so far

vars == <<open, unsent, content, received>>

Init ==
    /\ open = TRUE
    /\ unsent = [w \in Writers |-> <<>>]
    /\ content = <<>>
    /\ received = <<>>

\* A writer hands over a sequence of bytes; one offer at a time.
Offer(w, data) ==
    /\ unsent[w] = <<>>
    /\ unsent' = [unsent EXCEPT ![w] = data]
    /\ UNCHANGED <<open, content, received>>

\* The first n offered bytes are accepted, if they fit.
Accept(w, n) ==
    /\ open
    /\ n <= Len(unsent[w])
    /\ Len(content) + n <= Capacity
    /\ content' = content \o SubSeq(unsent[w], 1, n)
    /\ unsent' = [unsent EXCEPT ![w] = SubSeq(@, n + 1, Len(@))]
    /\ UNCHANGED <<open, received>>

\* The n oldest bytes of the channel are received.
Receive(n) ==
    /\ open
    /\ n <= Len(content)
    /\ received' = received \o SubSeq(content, 1, n)
    /\ content' = SubSeq(content, n + 1, Len(content))
    /\ UNCHANGED <<open, unsent>>

\* What is still unsent when the channel is shut is given back to its writer.
Refuse(w) ==
    /\ ~open
    /\ unsent[w] # <<>>
    /\ unsent' = [unsent EXCEPT ![w] = <<>>]
    /\ UNCHANGED <<open, content, received>>

Shut ==
    /\ open
    /\ open' = FALSE
    /\ UNCHANGED <<unsent, content, received>>

AcceptSome(w) == \E n \in 1..Capacity : Accept(w, n)
ReceiveSome == \E n \in 1..Capacity : Receive(n)

Next ==
    \/ \E w \in Writers : \/ \E data \in Offers : Offer(w, data)
                          \/ AcceptSome(w)
                          \/ Refuse(w)
    \/ ReceiveSome
    \/ Shut

SafeSpec == Init /\ [][Next]_vars

\* Offers are answered, and what is in an open channel is received.
Fairness ==
    /\ \A w \in Writers : WF_vars(AcceptSome(w) \/ Refuse(w))
    /\ WF_vars(ReceiveSome)

Spec == SafeSpec /\ Fairness
==============================================================================
