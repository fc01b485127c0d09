------------------------------ MODULE ModeFile ------------------------------
(***************************************************************************)
(* hermes-runner's current_mode.txt as fazle-mcp sees it.  The file is     *)
(* written by another process (hermes-runner); every tool module of        *)
(* fazle-mcp holds its own copy of _read_mode, and mode_tools answers the  *)
(* question "which mode are we in" with a reader of its own.  This module  *)
(* holds the two readers as operators of the file's content and the time.  *)
(*                                                                         *)
(* A content is abstracted to what a reader can tell apart:                *)
(*   form   how far the parse gets: open() fails, nothing after strip(),   *)
(*          not JSON, JSON but not an object, a JSON object;               *)
(*   mode   the mode it names, "other" for anything that is not a mode;    *)
(*   ttl    the value of expires_at: absent or falsy, a string with a UTC  *)
(*          offset, one without, a string that is no date, not a string;   *)
(*   until  the instant an "aware" ttl denotes.                            *)
(***************************************************************************)
EXTENDS Integers

Modes == {"READ", "BUILD", "RUN"}

Forms == {"unreadable", "empty", "word", "nonobject", "object"}
Ttls  == {"none", "aware", "naive", "malformed", "nonstring"}

ModeFiles == [form : Forms, mode : Modes \union {"other"}, ttl : Ttls, until : Nat]

\* A content that names no mode: nothing, garbage, a JSON value that is no object.
Nothing(form) == [form |-> form, mode |-> "other", ttl |-> "none", until |-> 0]

\* The legacy form, a bare mode name.
Word(m) == [form |-> "word", mode |-> m, ttl |-> "none", until |-> 0]

\* {"mode": m, "expires_at": ...}
Object(m, ttl, until) == [form |-> "object", mode |-> m, ttl |-> ttl, until |-> until]

\* Hands on whatever the file names, a mode or not.
StatedUnchecked(f) == f.mode

\* `mode if mode in MODES else "READ"`
Stated(f) == IF f.mode \in Modes THEN f.mode ELSE "READ"

-----------------------------------------------------------------------------
(* _read_mode, the gates' reader. *)

\* A comparison that lets the mode live through the instant it expires (the
\* code's test is now >= exp).
ReadModeLate(f, t) ==
    IF \/ f.form = "word"
       \/ f.form = "object" /\ f.ttl = "none"
       \/ f.form = "object" /\ f.ttl = "aware" /\ t <= f.until
    THEN Stated(f) ELSE "READ"

\* Falls back to the stated mode when the expiry cannot be parsed.
ReadModeOpen(f, t) ==
    IF \/ f.form = "word"
       \/ f.form = "object" /\ f.ttl \in {"none", "malformed", "nonstring"}
       \/ f.form = "object" /\ f.ttl = "aware" /\ t < f.until
    THEN Stated(f) ELSE "READ"

\* Forgets the expiry altogether.
ReadModeForever(f, t) ==
    IF f.form \in {"word", "object"} THEN Stated(f) ELSE "READ"

\* READ for every content that is not, right now, a mode in force.  A naive
\* expiry raises TypeError on the comparison, and the outer handler then looks
\* for a bare mode word in a text that is JSON.
ReadMode(f, t) ==
    IF \/ f.form = "word"
       \/ f.form = "object" /\ f.ttl = "none"
       \/ f.form = "object" /\ f.ttl = "aware" /\ t < f.until
    THEN Stated(f) ELSE "READ"

-----------------------------------------------------------------------------
(* get_mode_state, the report.  It differs from the gates' reader in one
   branch: an expiry it cannot parse is passed over and the stated mode kept. *)

NoCountdown == -1

Expired(f, t) == f.form = "object" /\ f.ttl = "aware" /\ t >= f.until

\* Treats the legacy bare word as garbage.
ReportedModeNoWord(f, t) ==
    IF f.form = "object" /\ f.ttl # "naive" /\ ~Expired(f, t)
    THEN Stated(f) ELSE "READ"

ReportedMode(f, t) ==
    IF \/ f.form = "word"
       \/ f.form = "object" /\ f.ttl # "naive" /\ ~Expired(f, t)
    THEN Stated(f) ELSE "READ"

\* Rounds the remaining time up instead of down.
CountdownRoundedUp(f, t, second) ==
    IF f.form = "object" /\ f.ttl = "aware" /\ t < f.until
    THEN (f.until - t + second - 1) \div second ELSE NoCountdown

\* ttl_seconds_remaining: int() of the remaining time, so whole seconds rounded
\* down; second is the number of clock ticks of one second.
Countdown(f, t, second) ==
    IF f.form = "object" /\ f.ttl = "aware" /\ t < f.until
    THEN (f.until - t) \div second ELSE NoCountdown

\* status "verified": the mode was really read, not a fail-closed default.
Verified(f) ==
    \/ f.form = "word" /\ f.mode \in Modes
    \/ f.form = "object" /\ f.ttl # "naive"

=============================================================================
