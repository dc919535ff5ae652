----------------------------- MODULE DurableLog -----------------------------
(***************************************************************************)
(* What a durable log promises its callers, without segments, batches,     *)
(* threads or files: a sequence that readers see, positions promised to    *)
(* callers, and the loss of any tail that holds no promised entry.         *)
(***************************************************************************)
EXTENDS Integers, Sequences

CONSTANT Ticket

VARIABLES
    content,    \* the entries a reader sees, entry i at LSN i
    promised    \* the LSN promised to each caller, 0 when there is none

vars == <<content, promised>>

Init == content = <<>> /\ promised = [t \in Ticket |-> 0]

Write(t) == content' = Append(content, t) /\ UNCHANGED promised

Promise(t) ==
    /\ promised[t] = 0
    /\ \E l \in 1..Len(content) :
         content[l] = t /\ promised' = [promised EXCEPT ![t] = l]
    /\ UNCHANGED content

LoseTail ==
    /\ \E n \in 0..Len(content) :
         /\ \A t \in Ticket : promised[t] <= n
         /\ content' = SubSeq(content, 1, n)
    /\ UNCHANGED promised

Next == LoseTail \/ \E t \in Ticket : Write(t) \/ Promise(t)

Spec == Init /\ [][Next]_vars

(* A promise is kept: the entry is where its caller was told it is.         *)
PromisesKept ==
    \A t \in Ticket : promised[t] # 0 =>
        promised[t] \in 1..Len(content) /\ content[promised[t]] = t
=============================================================================
