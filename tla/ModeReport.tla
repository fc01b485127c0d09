----------------------------- MODULE ModeReport -----------------------------
(***************************************************************************)
(* The mode file over time: hermes-runner grants a mode (with a            *)
(* Break-Glass TTL, without one, or in the legacy form), the file is       *)
(* damaged or lost, the clock advances.  The readers of ModeFile are       *)
(* functions of the state, so what is checked here is what a tool call or  *)
(* a get_mode_state report made at any moment would have concluded.        *)
(***************************************************************************)
EXTENDS ModeFile

CONSTANTS MaxTime,   \* the clock's bound, in ticks
          Second,    \* ticks in one second
          Lifetimes  \* the TTLs hermes-runner grants, in ticks

ASSUME MaxTimeAssumption == MaxTime \in Nat
ASSUME SecondAssumption == Second \in Nat \ {0}
ASSUME LifetimesAssumption == Lifetimes \subseteq Nat \ {0}

VARIABLES file,   \* the content of current_mode.txt
          now,    \* the clock of both processes (same machine)
          grant   \* history: the mode the runner last granted and its end

vars == <<file, now, grant>>

\* The end of a grant that has no TTL: past every instant of the clock.
Never == MaxTime + 1

Gate == ReadMode(file, now)
Report == ReportedMode(file, now)

\* Whatever the file holds, a reader answers with one of the three modes.
TypeOK ==
    /\ file \in ModeFiles
    /\ now \in 0 .. MaxTime
    /\ grant \in [mode : Modes, until : Nat]
    /\ Gate \in Modes
    /\ Report \in Modes

\* A machine on which the runner has never written the file.
Init ==
    /\ file = Nothing("unreadable")
    /\ now = 0
    /\ grant = [mode |-> "READ", until |-> Never]

\* The newer JSON form, with a TTL.
GrantWithTtl(m, lifetime) ==
    /\ now + lifetime <= MaxTime
    /\ file' = Object(m, "aware", now + lifetime)
    /\ grant' = [mode |-> m, until |-> now + lifetime]
    /\ UNCHANGED now

\* The newer JSON form with expires_at null, or the legacy bare word.
GrantWithoutTtl(m) ==
    /\ \/ file' = Object(m, "none", 0)
       \/ file' = Word(m)
    /\ grant' = [mode |-> m, until |-> Never]
    /\ UNCHANGED now

\* The file is removed, truncated, half written, overwritten by something that
\* is not a mode, or its expiry is in a shape the runner's format does not use.
Damage ==
    /\ \/ \E form \in {"unreadable", "empty", "nonobject"} : file' = Nothing(form)
       \/ file' \in {Word("other"), Object("other", "none", 0)}
       \/ /\ file.form = "object"
          /\ \E ttl \in {"naive", "malformed", "nonstring"} :
                file' = Object(file.mode, ttl, 0)
    /\ UNCHANGED <<now, grant>>

Tick ==
    /\ now < MaxTime
    /\ now' = now + 1
    /\ UNCHANGED <<file, grant>>

Grants ==
    \/ \E m \in Modes, lifetime \in Lifetimes : GrantWithTtl(m, lifetime)
    \/ \E m \in Modes : GrantWithoutTtl(m)

Next == Grants \/ Damage \/ Tick

\* Time passes; nothing else is ever obliged to happen.
Spec == Init /\ [][Next]_vars /\ WF_vars(Tick)

-----------------------------------------------------------------------------
(* Properties. *)

\* No gate ever acts on more authority than the runner granted last: whatever
\* happened to the file since, a reading above READ is the granted mode, and the
\* grant has not run out (_read_mode is "fail-closed").
GateWithinGrant ==
    Gate # "READ" => Gate = grant.mode /\ now < grant.until

\* A file that still names a mode names the granted one, with the granted end;
\* what makes GateWithinGrant inductive.
FileIsTheGrant ==
    file.mode \in Modes =>
        /\ file.form = "word" \/ (file.form = "object" /\ file.ttl = "none") =>
             grant = [mode |-> file.mode, until |-> Never]
        /\ file.form = "object" /\ file.ttl = "aware" =>
             grant = [mode |-> file.mode, until |-> file.until]

\* Between two grants the authority a gate reads can only be lost: damage and
\* time take a reading to READ and never back (a file that expired or broke does
\* not come back to life).
AuthorityOnlyLapses ==
    [][~Grants => Gate' \in {Gate, "READ"}]_vars

\* The report never denies an authority the gates would act on: when a gate
\* reads BUILD or RUN, get_mode_state says so and calls it verified.
ReportShowsAuthority ==
    Gate # "READ" => Report = Gate /\ Verified(file)

\* ttl_seconds_remaining is a promise in both directions: for that many whole
\* seconds the gates keep reading the reported mode, and one second later they
\* read READ (unless the file is written again).
CountdownIsKept ==
    LET left == Countdown(file, now, Second) IN
    left # NoCountdown =>
        /\ \A t \in now .. now + left * Second - 1 : ReadMode(file, t) = Report
        /\ ReadMode(file, now + (left + 1) * Second) = "READ"

\* A mode granted with a TTL reverts to READ by itself: whatever a gate reads
\* from a file with an expiry, it ends up reading READ or the file is rewritten.
TtlReverts ==
    \A m \in {"BUILD", "RUN"}, until \in 1 .. MaxTime :
        file = Object(m, "aware", until) ~>
            Gate = "READ" \/ file # Object(m, "aware", until)

\* "Fail-closed, matching [...] every other MODE_FILE reader": the mode the
\* report gives is the mode the gates read.  Refuted, see the README.
ReportAgreesWithGate == Report = Gate

=============================================================================
