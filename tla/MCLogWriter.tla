------------------------------ MODULE MCLogWriter ------------------------------
(***************************************************************************)
(* A small instance of LogWriter: two sessions, two allocations of two      *)
(* bytes, chunks of two bytes.                                              *)
(***************************************************************************)
EXTENDS LogWriter, TLC

CONSTANTS LogLength    \* how many bytes an allocation writes to each stream

(* Byte i of the allocation with CreateIndex e. *)
MCBytes == Epochs \X (1 .. LogLength)
Part(e, from, to) == [k \in 1 .. to - from |-> <<e, from + k>>]

(* What a Nomad sync passes: a range of the allocation's log it fetched, to be *)
(* flushed when the fetch reached the end of the log.                        *)
Fetched(s, e, from, to) ==
  [stream |-> s, data |-> Part(e, from, to), force |-> to = LogLength,
   after |-> to, nomadAfter |-> to, epoch |-> e]

(* What _force_flush_remaining_streams passes at the end of a terminal sync. *)
TerminalFlush(s) ==
  [stream |-> s, data |-> <<>>, force |-> TRUE,
   after |-> None, nomadAfter |-> None, epoch |-> None]

MCRequests ==
  UNION { { Fetched(s, e, from, to) : s \in Streams, e \in Epochs, from \in 0 .. to - 1 } :
          to \in 1 .. LogLength }
  \cup { TerminalFlush(s) : s \in Streams }
================================================================================
