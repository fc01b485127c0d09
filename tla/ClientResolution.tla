-------------------------- MODULE ClientResolution --------------------------
(***************************************************************************)
(* find_client_billing_profile: who is the client that a phone, or failing *)
(* that a name, means?  Bills are then generated for the answer.  The      *)
(* profiles are fazle-core's, written by people and by other tools, with   *)
(* phones in whatever form they were typed; a phone is a sequence of       *)
(* characters, of which the last ten digits (here TailLength) count.       *)
(***************************************************************************)
EXTENDS Integers, Sequences, FiniteSets

CONSTANTS ClientId,
          Mobiles,     \* what contact_person_mobile may hold; <<>>: nothing
          Phones,      \* the phones asked for, <<>>: none given
          Names,       \* the client_names of profiles
          Within,      \* <<part, name>>: part, stripped and lowered, is in name;
                       \* a blank part is in every name
          Parts,       \* the client_names asked for, NoPart: none given
          NoPart,
          TailLength

Digits == {"0", "1", "2", "3", "4", "5", "6", "7", "8", "9"}

ASSUME TailLengthAssumption == TailLength \in Nat \ {0}
ASSUME NoneGivenAssumption == <<>> \in Phones /\ NoPart \in Parts
ASSUME WithinAssumption == Within \subseteq (Parts \ {NoPart}) \X Names

VARIABLES profile,    \* profile[c]: c's billing profile, or NoProfile
          resolution  \* the last question and its answer

resolutionVars == <<profile, resolution>>

NoProfile == [name |-> NoPart, mobile |-> <<>>, active |-> FALSE]
Unasked == [phone |-> <<>>, part |-> NoPart, how |-> "unasked", who |-> {}]

ResolutionTypeOK ==
    /\ profile \in [ClientId -> [name : Names, mobile : Mobiles, active : BOOLEAN] \union {NoProfile}]
    /\ resolution.phone \in Phones /\ resolution.part \in Parts
    /\ resolution.how \in {"unasked", "found", "ambiguous", "not_found", "error"}
    /\ resolution.who \subseteq ClientId
    /\ resolution.how = "found" => Cardinality(resolution.who) = 1

ResolutionInit ==
    /\ profile = [c \in ClientId |-> NoProfile]
    /\ resolution = Unasked

-----------------------------------------------------------------------------
(* A profile is created, edited or deleted; an answer given before is of no more
   interest. *)

SaveProfile ==
    /\ \E c \in ClientId, name \in Names, mobile \in Mobiles, active \in BOOLEAN :
         profile' = [profile EXCEPT ![c] = [name |-> name, mobile |-> mobile, active |-> active]]
    /\ resolution' = Unasked

DeleteProfile ==
    /\ \E c \in ClientId : profile' = [profile EXCEPT ![c] = NoProfile]
    /\ resolution' = Unasked

-----------------------------------------------------------------------------
(* The resolution. *)

\* _last10
Last10(phone) ==
    LET IsDigit(ch) == ch \in Digits
        digits == SelectSeq(phone, IsDigit) IN
    IF Len(digits) >= TailLength THEN SubSeq(digits, Len(digits) - TailLength + 1, Len(digits))
    ELSE digits

\* GET /admin/client-billing-profiles?active=True
Rows == {c \in ClientId : profile[c].active}

ByPhone(phone) ==
    {c \in Rows : Last10(phone) # <<>> /\ Last10(profile[c].mobile) = Last10(phone)}

ByName(part) == {c \in Rows : <<part, profile[c].name>> \in Within}

Answered(how, who) == [how |-> how, who |-> who]

\* A name, when there is one, settles what the phone leaves open.
FindNarrowed(phone, part) ==
    LET byPhone == IF phone # <<>> THEN ByPhone(phone) ELSE {}
        matches == IF Cardinality(byPhone) # 1 /\ part # NoPart THEN ByName(part) ELSE byPhone IN
    IF phone = <<>> /\ part = NoPart THEN Answered("error", {})
    ELSE CASE Cardinality(matches) = 1 -> Answered("found", matches)
           [] matches = {} -> Answered("not_found", {})
           [] OTHER -> Answered("ambiguous", matches)

\* The phone decides if it matches anything; a name is asked only if it does not.
Find(phone, part) ==
    LET byPhone == IF phone # <<>> THEN ByPhone(phone) ELSE {}
        matches == IF byPhone = {} /\ part # NoPart THEN ByName(part) ELSE byPhone IN
    IF phone = <<>> /\ part = NoPart THEN Answered("error", {})
    ELSE CASE Cardinality(matches) = 1 -> Answered("found", matches)
           [] matches = {} -> Answered("not_found", {})
           [] OTHER -> Answered("ambiguous", matches)

\* The rows may also not be had: an error then, and no client.
FindClientBillingProfile ==
    /\ \E phone \in Phones, part \in Parts :
         \E answer \in {Find(phone, part), Answered("error", {})} :
           resolution' = [phone |-> phone, part |-> part, how |-> answer.how, who |-> answer.who]
    /\ UNCHANGED profile

ResolutionNext == SaveProfile \/ DeleteProfile \/ FindClientBillingProfile
ResolutionSpec == ResolutionInit /\ [][ResolutionNext]_resolutionVars

-----------------------------------------------------------------------------
(* Properties. *)

\* The forms of the number with the tail t, as people write it (+880, 0, dashes).
Forms(t) ==
    {<<"0">> \o t, <<"8", "8", "0">> \o t, <<"+", "8", "8", "0", "-">> \o t,
     <<"0", Head(t), "-">> \o Tail(t)}

Tails == [1 .. TailLength -> {"1", "7"}]

\* Two written phones are the same telephone.
SameTelephone(p, q) == \E t \in Tails : {p, q} \subseteq Forms(t)

\* The last digits tell the telephones of the instance apart: two phones written in
\* whatever forms are the same telephone if and only if they agree in them.
Last10TellsTelephones ==
    \A m \in Mobiles, p \in Phones :
      (m # <<>> /\ SameTelephone(m, p)) <=> (p # <<>> /\ Last10(p) # <<>> /\ Last10(m) = Last10(p))

\* Whoever is found is the one active client the question can mean: the only one
\* with that telephone, in whatever forms the two are written, and the name given
\* beside it turns nothing; or, if nobody has it, the only one whose name contains
\* the name.  An inactive client is never found or proposed.
FoundIsTheOnlyMatch ==
    LET active == {c \in ClientId : profile[c].active}
        same == {c \in active : profile[c].mobile # <<>> /\ SameTelephone(profile[c].mobile, resolution.phone)}
        named == {c \in active : <<resolution.part, profile[c].name>> \in Within}
        meant == IF same # {} THEN same ELSE named IN
    /\ resolution.how = "found" <=> resolution.how \notin {"unasked", "error"} /\ Cardinality(meant) = 1
    /\ resolution.how \in {"found", "ambiguous"} => resolution.who = meant
    /\ resolution.how = "not_found" => meant = {}

=============================================================================
