------------------------------ MODULE Delivery ------------------------------
(***************************************************************************)
(* What a download promises, without packets, replies or timers: the file  *)
(* it writes grows by the chunk that is next, each chunk once, until it is *)
(* whole or the download is given up.                                      *)
(***************************************************************************)
EXTENDS Naturals, Sequences

CONSTANTS
  Threads,  \* the downloads
  Wanted    \* [thread -> the chunks of its file]

VARIABLES
  got,    \* [thread] the chunks written
  status  \* [thread] "running", "whole" or "given up"

Init ==
  /\ got = [t \in Threads |-> << >>]
  /\ status = [t \in Threads |-> "running"]

WriteChunk(t) ==
  /\ status[t] = "running"
  /\ Len(got[t]) < Len(Wanted[t])
  /\ got' = [got EXCEPT ![t] = Append(@, Wanted[t][Len(@) + 1])]
  /\ UNCHANGED status

Finish(t) ==
  /\ status[t] = "running"
  /\ got[t] = Wanted[t]
  /\ status' = [status EXCEPT ![t] = "whole"]
  /\ UNCHANGED got

GiveUp(t) ==
  /\ status[t] = "running"
  /\ status' = [status EXCEPT ![t] = "given up"]
  /\ UNCHANGED got

Next == \E t \in Threads : WriteChunk(t) \/ Finish(t) \/ GiveUp(t)

Spec == Init /\ [][Next]_<<got, status>>
=============================================================================
