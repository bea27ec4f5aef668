------------------------------ MODULE Selection ------------------------------
(***************************************************************************)
(* What the load balancer promises its callers, the stream handlers: a     *)
(* call for a channel, made with the sources to avoid, ends with one of    *)
(* the sources that carry the channel or with an error. A source to avoid  *)
(* is the answer only if, in a configuration that was in force, all        *)
(* sources that carry the channel are to be avoided. Module StreamSession  *)
(* relies on this.                                                         *)
(***************************************************************************)
CONSTANTS
  Calls, Sources,
  UrlMaps,  (* the URLs of a channel by source                             *)
  Configurations, (* the sources that may be configured or discovered at a *)
            (* time                                                        *)
  NoUrls, NoSource

VARIABLES
  phase,   (* of a call                                                    *)
  wanted,  (* the channel's URLs                                           *)
  avoid,   (* the sources to avoid                                         *)
  answer

vars == <<phase, wanted, avoid, answer>>

Carriers(conf, m) == {s \in conf : m[s] # {}}

Init ==
  /\ phase = [c \in Calls |-> "idle"]
  /\ wanted = [c \in Calls |-> NoUrls]
  /\ avoid = [c \in Calls |-> {}]
  /\ answer = [c \in Calls |-> NoSource]

Ask(c) ==
  /\ phase[c] = "idle"
  /\ \E m \in UrlMaps, ex \in SUBSET Sources :
       /\ wanted' = [wanted EXCEPT ![c] = m]
       /\ avoid' = [avoid EXCEPT ![c] = ex]
  /\ phase' = [phase EXCEPT ![c] = "asked"]
  /\ UNCHANGED answer

Answer(c) ==
  /\ phase[c] = "asked"
  /\ \E conf \in Configurations : \E s \in Carriers(conf, wanted[c]) :
       /\ s \in avoid[c] => Carriers(conf, wanted[c]) \subseteq avoid[c]
       /\ answer' = [answer EXCEPT ![c] = s]
  /\ phase' = [phase EXCEPT ![c] = "answered"]
  /\ UNCHANGED <<wanted, avoid>>

(* From "idle" if there is nothing to ask for.                             *)
Fail(c) ==
  /\ phase[c] \in {"idle", "asked"}
  /\ phase' = [phase EXCEPT ![c] = "failed"]
  /\ wanted' = [wanted EXCEPT ![c] = NoUrls]
  /\ avoid' = [avoid EXCEPT ![c] = {}]
  /\ UNCHANGED answer

(* The caller uses the answer, or is done with the call.                   *)
Use(c) ==
  /\ phase[c] \in {"answered", "failed", "used"}
  /\ \E p \in {"used", "idle"} : phase' = [phase EXCEPT ![c] = p]
  /\ wanted' = [wanted EXCEPT ![c] = NoUrls]
  /\ avoid' = [avoid EXCEPT ![c] = {}]
  /\ answer' = [answer EXCEPT ![c] = NoSource]

Next == \E c \in Calls : Ask(c) \/ Answer(c) \/ Fail(c) \/ Use(c)

Spec == Init /\ [][Next]_vars
=============================================================================
