------------------------------ MODULE MCBundle ------------------------------
(* Small instances of Bundle.                                              *)
EXTENDS Bundle

Message(n) == <<123>> \o [i \in 1..n |-> 97] \o <<125>>

\* Messages whose lengths take one, two and three bytes; "{}" has no msg_type.
Untyped == Message(0)
Short == Message(1)
SmallMsgs == {Untyped, Short, Message(300)}
Huge == Message(66000)
MCMsgs == SmallMsgs \cup {Huge}
MCTyped == MCMsgs \ {Untyped}

\* "987654321" and "0", which serialize_begin gives, and no ids at all.
MCHeads == {[sendId |-> <<57, 56, 55, 54, 53, 52, 51, 50, 49>>, destId |-> <<48>>],
            [sendId |-> << >>, destId |-> << >>]}

\* Up to four small messages in any order, a huge one, and numbers of messages at
\* the limits of a signed byte and of the count byte.
MCBatches == UNION {[1..n -> SmallMsgs] : n \in 0..4}
             \cup {<<Short, Huge, Short>>}
             \cup {[i \in 1..n |-> Short] : n \in {127, 128, 256, 257}}
             \cup {[i \in 1..255 |-> IF i = 2 THEN Untyped ELSE Short]}
=============================================================================
