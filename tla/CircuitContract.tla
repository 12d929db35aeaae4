--------------------------- MODULE CircuitContract ---------------------------
(***************************************************************************)
(* What the circuit breakers promise to their callers, without clocks,     *)
(* generations, permits or retries: the circuit of a service listens to    *)
(* exactly the calls it admitted since its last change of phase, and each  *)
(* of them is heard once.  The states are those the class comment of       *)
(* ServiceCircuitBreaker lists.                                            *)
(***************************************************************************)
EXTENDS Integers

CONSTANTS Services, Calls, FailureThreshold

VARIABLES
    phase,      \* phase[s]: closed, open or half_open
    current,    \* current[s]: the calls the circuit still listens to
    streak      \* streak[s]: failures in a row heard while closed

cvars == <<phase, current, streak>>

CInit ==
    /\ phase = [s \in Services |-> "closed"]
    /\ current = [s \in Services |-> {}]
    /\ streak = [s \in Services |-> 0]

\* A change of phase: whoever was admitted before is not listened to any more.
Become(s, p, heard) ==
    /\ phase' = [phase EXCEPT ![s] = p]
    /\ current' = [current EXCEPT ![s] = heard]
    /\ streak' = [streak EXCEPT ![s] = 0]

\* A call passes the closed circuit.
Join(s, c) ==
    /\ phase[s] = "closed"
    /\ c \notin current[s]
    /\ current' = [current EXCEPT ![s] = @ \cup {c}]
    /\ UNCHANGED <<phase, streak>>

\* One call probes the open circuit.
Probe(s, c) ==
    /\ phase[s] = "open"
    /\ Become(s, "half_open", {c})

\* A call that is listened to ends without changing the phase.
Heard(s, c, n) ==
    /\ phase[s] = "closed"
    /\ c \in current[s]
    /\ n \in {0, streak[s], streak[s] + 1}
    /\ n < FailureThreshold
    /\ current' = [current EXCEPT ![s] = @ \ {c}]
    /\ streak' = [streak EXCEPT ![s] = n]
    /\ UNCHANGED phase

\* The FailureThreshold-th failure in a row trips the circuit.
Trip(s, c) ==
    /\ phase[s] = "closed"
    /\ c \in current[s]
    /\ streak[s] + 1 >= FailureThreshold
    /\ Become(s, "open", {})

\* The probe decides: recovery, or another cooldown.
Decide(s, c) ==
    /\ phase[s] = "half_open"
    /\ c \in current[s]
    /\ \E p \in {"closed", "open"} : Become(s, p, {})

CNext ==
    \E s \in Services, c \in Calls :
        \/ Join(s, c)
        \/ Probe(s, c)
        \/ \E n \in 0..FailureThreshold : Heard(s, c, n)
        \/ Trip(s, c)
        \/ Decide(s, c)

CSpec == CInit /\ [][CNext]_cvars

=============================================================================
