----------------------------- MODULE BlockStore -----------------------------
(***************************************************************************)
(* What libtorrent may expect of a disk_interface that buffers its writes: *)
(* an accepted write takes effect at once, and a read or a hash sees, for  *)
(* every cell it asked for, something the cell has held since the request  *)
(* was made (each cell is a regular register).  Nothing is promised about  *)
(* cells that are not Good; only a request for a Bad cell may fail.        *)
(***************************************************************************)
CONSTANTS Cell, Good, Bad, Block, Val, InitVal, Job

VARIABLES
  content,   \* Good cell -> value
  request,   \* Job -> the cells it asked for, {} when there is no request
  seen,      \* Job -> what the good cells it asked for have held since
  answer     \* Job -> its answer, the cells with their values

NoAnswer == [kind |-> "none", data |-> {}]
Error == [kind |-> "error", data |-> {}]

vars == <<content, request, seen, answer>>

Init ==
  /\ content = [c \in Good |-> InitVal]
  /\ request = [j \in Job |-> {}]
  /\ seen = [j \in Job |-> {}]
  /\ answer = [j \in Job |-> NoAnswer]

Write(b, v) ==
  /\ content' = [c \in Good |-> IF c \in b THEN v ELSE content[c]]
  /\ seen' = [j \in Job |->
       IF answer[j] = NoAnswer THEN seen[j] \cup {<<c, v>> : c \in request[j] \cap b \cap Good}
       ELSE seen[j]]
  /\ UNCHANGED <<request, answer>>

\* Every good cell that was asked for is answered once, with a value it has held.
IsAnswer(A, cells, held) ==
  /\ A.kind = "data"
  /\ {a \in A.data : a[1] \in Good} \subseteq held
  /\ \A c \in cells \cap Good :
       \E v \in Val : <<c, v>> \in A.data /\ \A w \in Val : <<c, w>> \in A.data => w = v

Ask(j) ==
  /\ request[j] = {}
  /\ \E cells \in SUBSET Cell :
       /\ cells # {}
       /\ request' = [request EXCEPT ![j] = cells]
       /\ seen' = [seen EXCEPT ![j] = {<<c, content[c]>> : c \in cells \cap Good}]
       /\ \/ answer' = answer
          \/ /\ answer' = [answer EXCEPT ![j] = answer'[j]]
             /\ IsAnswer(answer'[j], cells, seen'[j])
  /\ UNCHANGED content

Answer(j) ==
  /\ request[j] # {} /\ answer[j] = NoAnswer
  /\ answer' = [answer EXCEPT ![j] = answer'[j]]
  /\ IF answer'[j] = Error THEN request[j] \cap Bad # {}
     ELSE IsAnswer(answer'[j], request[j], seen[j])
  /\ UNCHANGED <<content, request, seen>>

Forget(j) ==
  /\ answer[j] # NoAnswer
  /\ request' = [request EXCEPT ![j] = {}]
  /\ seen' = [seen EXCEPT ![j] = {}]
  /\ answer' = [answer EXCEPT ![j] = NoAnswer]
  /\ UNCHANGED content

Next ==
  \/ \E b \in Block, v \in Val : Write(b, v)
  \/ \E j \in Job : Ask(j) \/ Answer(j) \/ Forget(j)

Spec == Init /\ [][Next]_vars
=============================================================================
