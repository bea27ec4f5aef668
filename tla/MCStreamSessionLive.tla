------------------------- MODULE MCStreamSessionLive -------------------------
(* StreamSession with a bound on the number of attempts to stream, first   *)
(* ones and retries together, so that TLC can check its liveness           *)
(* properties on the whole state graph. A client out of attempts gives up  *)
(* in the pause before its retry, where it holds nothing that another      *)
(* client or the writer waits for. The upstream delivers a bounded number  *)
(* of chunks before it ends or fails.                                      *)
EXTENDS StreamSession

CONSTANTS
  MaxAttempts,  (* bound on requests and retries                           *)
  MaxChunks     (* bound on the data chunks in the life of the stream      *)

VARIABLE attempts

Attempting == \E c \in Clients : pc[c] \in {"idle", "pause"} /\ pc'[c] = "start"

Chunk == WriterAt("reading") /\ writer'.pc = "notify"

BoundedNext ==
  /\ Next
  /\ Chunk => written < MaxChunks
  /\ IF Attempting THEN attempts < MaxAttempts /\ attempts' = attempts + 1
     ELSE UNCHANGED attempts

BoundedSpec ==
  /\ Init /\ attempts = 0
  /\ [][BoundedNext]_<<vars, attempts>>
  /\ Fairness
=============================================================================
