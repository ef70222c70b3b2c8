------------------------------ MODULE Exchange ------------------------------
(***************************************************************************)
(* What one connection is to the rest of the broker: request frames that   *)
(* arrive, are taken one at a time and whole, and are answered by whole    *)
(* frames, each before the next request is taken.  Server reads and writes *)
(* its frames this way.                                                    *)
(***************************************************************************)
EXTENDS Integers

CONSTANTS
  Frames,  \* requests the client has to send
  Length,  \* the length each one declares
  Doubtful \* those whose payload may be no request

VARIABLES
  open,     \* the client is there
  alive,    \* the process is
  arrived,  \* requests the client has sent whole
  taken,    \* how many of them the server has read
  replied   \* requests answered whole

vars == <<open, alive, arrived, taken, replied>>

Init ==
  /\ open = TRUE
  /\ alive = TRUE
  /\ arrived = {}
  /\ taken = 0
  /\ replied = {}

(* Frames arrive in their order, one or several at a time.                 *)
Arrive ==
  /\ open
  /\ arrived' \in SUBSET (1..Frames)
  /\ arrived \subseteq arrived'
  /\ \A k \in arrived' : \A j \in 1..k : j \in arrived'
  /\ UNCHANGED <<open, alive, taken, replied>>

Leave ==
  /\ open
  /\ open' = FALSE
  /\ UNCHANGED <<alive, arrived, taken, replied>>

Take ==
  /\ alive
  /\ taken + 1 \in arrived
  /\ Length[taken + 1] >= 0
  /\ open => taken \in replied \cup {0}
  /\ taken' = taken + 1
  /\ UNCHANGED <<open, alive, arrived, replied>>

Reply ==
  /\ alive
  /\ open
  /\ taken \notin replied \cup {0}
  /\ replied' = replied \cup {taken}
  /\ UNCHANGED <<open, alive, arrived, taken>>

(* Only a client that leaves or a frame that is no request ends the process. *)
Die ==
  /\ alive
  /\ \/ ~open
     \/ taken + 1 \in arrived /\ Length[taken + 1] < 0
     \/ taken \in Doubtful \ replied
  /\ alive' = FALSE
  /\ UNCHANGED <<open, arrived, taken, replied>>

Next == Arrive \/ Leave \/ Take \/ Reply \/ Die

Spec == Init /\ [][Next]_vars
=============================================================================
