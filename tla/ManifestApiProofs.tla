-------------------------- MODULE ManifestApiProofs --------------------------
(***************************************************************************)
(* The use cases keep tenants apart and store only what they validated and *)
(* had authorized, for every assignment of names to projects and tenants.  *)
(***************************************************************************)
EXTENDS ManifestApi, TLAPS

-----------------------------------------------------------------------------
(* Instants: sqlInstant is exact for every length of a second.             *)

LEMMA Division ==
  ASSUME NEW a \in Nat, NEW b \in Nat \ {0}
  PROVE  /\ a \div b \in Nat
         /\ (a \div b) * b <= a
         /\ a < (a \div b) * b + b
  OBVIOUS

\* The shift makes the truncated division a floor.
LEMMA SecondsFloor ==
  ASSUME InstantAssumption, NEW us \in Int
  PROVE  /\ Seconds(us) \in Int
         /\ us - Seconds(us) * Micros \in 0..(Micros - 1)
  <1> USE DEF InstantAssumption
  <1>1. CASE us >= 0
    <2>1. Seconds(us) = us \div Micros
      BY <1>1 DEF Seconds, Truncated
    <2> DEFINE q == us \div Micros
    <2>2. q \in Nat /\ q * Micros <= us /\ us < q * Micros + Micros
      BY <1>1, Division
    <2>3. q * Micros \in Int BY <2>2
    <2> HIDE DEF q
    <2>4. QED BY <2>1, <2>2, <2>3 DEF q
  <1>2. CASE us < 0
    <2> DEFINE p == -(us - (Micros - 1))
               q == p \div Micros
    <2>1. p \in Nat BY <1>2
    <2>2. Seconds(us) = -q
      BY <1>2, <2>1 DEF Seconds, Truncated
    <2>3. q \in Nat /\ q * Micros <= p /\ p < q * Micros + Micros
      BY <2>1, Division
    <2>4. q * Micros \in Int /\ (-q) * Micros = -(q * Micros)
      BY <2>3
    <2>5. us = -p + (Micros - 1) OBVIOUS
    <2> HIDE DEF q, p
    <2>6. us - (-q) * Micros = (Micros - 1) - (p - q * Micros)
      BY <2>1, <2>3, <2>4, <2>5
    <2>7. QED BY <2>1, <2>2, <2>3, <2>4, <2>6
  <1>3. QED BY <1>1, <1>2

\* The conversion of sqlInstant keeps every microsecond, before 1970 as well.
THEOREM SqlInstantExact ==
  ASSUME NEW us \in Int
  PROVE  /\ SqlInstant(us) \in Timestamp
         /\ SqlInstant(us).second * Micros + SqlInstant(us).micro = us
  <1>1. Seconds(us) \in Int /\ us - Seconds(us) * Micros \in 0..(Micros - 1)
    BY SecondsFloor, InstantAssumption
  <1>2. Seconds(us) * Micros \in Int BY <1>1, InstantAssumption DEF InstantAssumption
  <1>3. QED BY <1>1, <1>2 DEF SqlInstant, Timestamp

\* Two timestamps compare as the instants they were made of.
THEOREM SqlInstantOrder ==
  ASSUME NEW u \in Int, NEW v \in Int, u < v
  PROVE  \/ SqlInstant(u).second < SqlInstant(v).second
         \/ /\ SqlInstant(u).second = SqlInstant(v).second
            /\ SqlInstant(u).micro < SqlInstant(v).micro
  <1>1. ASSUME NEW s \in Int, NEW t \in Int, s >= t + 1, NEW M \in Nat
        PROVE  s * M >= t * M + M
    <2>1. s * M - (t + 1) * M = (s - (t + 1)) * M BY <1>1
    <2>2. (s - (t + 1)) * M >= 0 BY <1>1
    <2>3. QED BY <1>1, <2>1, <2>2
  <1> DEFINE s == SqlInstant(u).second
             t == SqlInstant(v).second
  <1>2. /\ s \in Int /\ t \in Int /\ Micros \in Nat
        /\ SqlInstant(u).micro \in 0..(Micros - 1)
        /\ SqlInstant(v).micro \in 0..(Micros - 1)
        /\ s * Micros + SqlInstant(u).micro = u
        /\ t * Micros + SqlInstant(v).micro = v
    BY SqlInstantExact, InstantAssumption DEF InstantAssumption, Timestamp
  <1> HIDE DEF s, t
  <1>3. CASE s < t BY <1>3 DEF s, t
  <1>4. CASE s = t
    <2>1. s * Micros \in Int BY <1>2
    <2>2. QED BY <1>2, <1>4, <2>1 DEF s, t
  <1>5. CASE s >= t + 1
    <2>1. s * Micros >= t * Micros + Micros BY <1>1, <1>2, <1>5
    <2>2. s * Micros \in Int /\ t * Micros \in Int BY <1>2
    <2>3. QED BY <1>2, <2>1, <2>2
  <1>6. QED BY <1>2, <1>3, <1>4, <1>5


-----------------------------------------------------------------------------
(* The calls.                                                              *)

\* A call past validation holds a valid copy, equal to what it was given.
CopyInv ==
    \A c \in Call :
      /\ copy[c] = entry[c]
      /\ at[c] = "idle" => answer[c] = "none" /\ got[c] = None
      /\ at[c] \in {"authorizing", "storing"} =>
           copy[c] \in Offered /\ Valid(copy[c]) /\ answer[c] = "none" /\ got[c] = None
      /\ answer[c] \in {"OK", "CONFLICT", "NOT_FOUND", "UNAVAILABLE"} =>
           copy[c] \in Offered /\ Valid(copy[c]) /\ c \in held /\ at[c] = "done"
      /\ got[c] # None =>
           /\ answer[c] = "OK"
           /\ rows[copy[c].name] # None
           /\ rows[copy[c].name].facts = got[c]

\* Authority found at the decision was held during the call.
HeldInv ==
    \A c \in Call :
      /\ at[c] = "authorizing" /\ copy[c].context.tenant \in authority => c \in held
      /\ at[c] = "storing" => c \in held

\* A row was written by a call that got past authorization.
RowInv ==
    \A n \in Name : rows[n] # None =>
      LET c == rows[n].by
      IN  /\ copy[c] \in Offered /\ Valid(copy[c]) /\ c \in held
          /\ at[c] = "done"
          /\ copy[c].op = "seed" /\ copy[c].name = n
          /\ rows[n] = Row(c)

IInv == TypeOK /\ CopyInv /\ HeldInv /\ RowInv

-----------------------------------------------------------------------------
LEMMA InitIInv == ApiAssumption /\ Init => IInv
  BY DEF ApiAssumption, Init, IInv, TypeOK, CopyInv, HeldInv, RowInv, Code

\* One step writes at most the free name of a valid, authorized seed.
LEMMA RegisterInv ==
  ASSUME ApiAssumption, IInv, NEW c \in Call, Captured(c) \in Offered,
         Captured(c).op = "seed", Register(c)
  PROVE  /\ rows' \in [Name -> StoredRow \union {None}]
         /\ \A n \in Name : rows[n] # None => rows'[n] = rows[n]
         /\ \A n \in Name : rows'[n] # rows[n] =>
              n = Captured(c).name /\ rows'[n] = Row(c) /\ rows[n] = None
         /\ rows'[Captured(c).name] # None
  <1> USE DEF ApiAssumption, IInv, TypeOK, Register
  <1>1. Captured(c).name \in Name /\ Row(c) \in StoredRow
    <2>1. CreatedAt[Captured(c).facts] \in Int BY DEF Input
    <2>2. SqlInstant(CreatedAt[Captured(c).facts]) \in Timestamp
      BY <2>1, SqlInstantExact
    <2>3. QED BY <2>2 DEF Input, Context, Row, StoredRow
  <1>2. QED BY <1>1

LEMMA NextIInv == ApiAssumption /\ IInv /\ [Next]_vars => IInv'
  <1> SUFFICES ASSUME ApiAssumption, IInv, [Next]_vars PROVE IInv'
    OBVIOUS
  <1> USE DEF ApiAssumption, IInv, TypeOK, CopyInv, HeldInv, RowInv, Code,
              Captured, Row
  <1>1. ASSUME NEW c \in Call, Enter(c) PROVE IInv'
    <2> USE <1>1 DEF Enter, Finish, Refusal
    <2>1. TypeOK' OBVIOUS
    <2>2. CopyInv' OBVIOUS
    <2>3. HeldInv' OBVIOUS
    <2>4. RowInv' BY DEF StoredRow
    <2>5. QED BY <2>1, <2>2, <2>3, <2>4
  <1>2. ASSUME NEW c \in Call, Authorize(c) PROVE IInv'
    <2> USE <1>2 DEF Authorize, Finish
    <2>1. TypeOK' OBVIOUS
    <2>2. CopyInv' OBVIOUS
    <2>3. HeldInv' OBVIOUS
    <2>4. RowInv' BY DEF StoredRow
    <2>5. QED BY <2>1, <2>2, <2>3, <2>4
  <1>3. ASSUME NEW c \in Call, StoreSeed(c) PROVE IInv'
    <2>0. CASE ~InCalendar(c)
      <3> USE <1>3, <2>0 DEF StoreSeed, Finish
      <3>1. TypeOK' OBVIOUS
      <3>2. CopyInv' OBVIOUS
      <3>3. HeldInv' OBVIOUS
      <3>4. RowInv' BY DEF StoredRow
      <3>5. QED BY <3>1, <3>2, <3>3, <3>4
    <2> SUFFICES ASSUME InCalendar(c) PROVE IInv'
      BY <2>0
    <2>1. /\ rows' \in [Name -> StoredRow \union {None}]
          /\ \A n \in Name : rows[n] # None => rows'[n] = rows[n]
          /\ \A n \in Name : rows'[n] # rows[n] =>
               n = copy[c].name /\ rows'[n] = Row(c) /\ rows[n] = None
          /\ rows'[copy[c].name] # None
      BY <1>3, RegisterInv DEF StoreSeed
    <2> USE DEF StoreSeed, Finish
    <2>2. copy' = copy /\ held' = held /\ entry' = entry /\ args' = args
          /\ authority' = authority /\ got' = got
      BY <1>3
    <2>3. TypeOK' BY <1>3, <2>1
    <2>4. CopyInv' BY <1>3, <2>1 DEF Input
    <2>5. HeldInv' BY <1>3
    <2>6. RowInv' BY <1>3, <2>1, <2>2 DEF StoredRow
    <2>7. QED BY <2>3, <2>4, <2>5, <2>6
  <1>4. ASSUME NEW c \in Call, StoreRead(c) PROVE IInv'
    <2> USE <1>4 DEF StoreRead, Finish
    <2>1. TypeOK' BY DEF StoredRow, Input
    <2>2. CopyInv' OBVIOUS
    <2>3. HeldInv' OBVIOUS
    <2>4. RowInv' BY DEF StoredRow
    <2>5. QED BY <2>1, <2>2, <2>3, <2>4
  <1>5. ASSUME NEW c \in Call, StoreUnavailable(c) PROVE IInv'
    <2> USE <1>5 DEF StoreUnavailable, Finish
    <2>1. TypeOK' OBVIOUS
    <2>2. CopyInv' OBVIOUS
    <2>3. HeldInv' OBVIOUS
    <2>4. RowInv' BY DEF StoredRow
    <2>5. QED BY <2>1, <2>2, <2>3, <2>4
  <1>6. ASSUME NEW c \in Call, LandLate(c) PROVE IInv'
    <2>1. /\ rows' \in [Name -> StoredRow \union {None}]
          /\ \A n \in Name : rows[n] # None => rows'[n] = rows[n]
          /\ \A n \in Name : rows'[n] # rows[n] =>
               n = copy[c].name /\ rows'[n] = Row(c) /\ rows[n] = None
      BY <1>6, RegisterInv DEF LandLate
    <2> USE DEF LandLate
    <2>2. TypeOK' BY <1>6, <2>1
    <2>3. CopyInv' BY <1>6, <2>1 DEF Input
    <2>4. HeldInv' BY <1>6
    <2>5. RowInv' BY <1>6, <2>1 DEF StoredRow
    <2>6. QED BY <2>2, <2>3, <2>4, <2>5
  <1>7. ASSUME NEW c \in Call, CallerChanges(c) PROVE IInv'
    BY <1>7 DEF CallerChanges
  <1>8. ASSUME NEW t \in Tenant, Revoke(t) \/ Grant(t) PROVE IInv'
    <2>1. CASE Revoke(t) BY <2>1 DEF Revoke
    <2>2. CASE Grant(t)
      <3> USE <2>2 DEF Grant
      <3>1. TypeOK' OBVIOUS
      <3>2. CopyInv' OBVIOUS
      <3>3. HeldInv' OBVIOUS
      <3>4. RowInv' BY DEF StoredRow
      <3>5. QED BY <3>1, <3>2, <3>3, <3>4
    <2>3. QED BY <1>8, <2>1, <2>2
  <1>9. CASE UNCHANGED vars BY <1>9 DEF vars
  <1>10. QED
    BY <1>1, <1>2, <1>3, <1>4, <1>5, <1>6, <1>7, <1>8, <1>9 DEF Next

THEOREM ApiInvariant == Spec => []IInv
  <1>1. Init => IInv BY InitIInv, ApiAssumption
  <1>2. IInv /\ [Next]_vars => IInv' BY NextIInv, ApiAssumption
  <1>3. QED BY <1>1, <1>2, PTL DEF Spec

\* Every variable keeps its type: what a row holds came from an offered input,
\* and its time column is a timestamp.
THEOREM ApiTypeCorrect == Spec => []TypeOK
  <1>1. IInv => TypeOK BY DEF IInv
  <1>2. QED BY <1>1, ApiInvariant, PTL

\* A registered manifest carries exactly the context and the facts that were
\* validated on entry: structuredClone closes the window of the await.
THEOREM ApiStoresEntryArguments == Spec => []EntryArgumentsStored
  <1>1. IInv => EntryArgumentsStored
    BY ApiAssumption
    DEF ApiAssumption, IInv, TypeOK, CopyInv, RowInv, EntryArgumentsStored,
        Row, Captured, StoredRow
  <1>2. QED BY <1>1, ApiInvariant, PTL

\* No request registers into, refers to, or is shown another tenant's project.
THEOREM ApiTenantsApart == Spec => []TenantsApart
  <1>1. ASSUME IInv, NEW n \in Name, rows[n] # None
        PROVE  /\ rows[n].tenant = OwnerOf[ProjectOf[n]]
               /\ RefsIn[rows[n].facts] = ProjectOf[n]
    <2> DEFINE in == copy[rows[n].by]
    <2>1. in.op = "seed" /\ in.name = n /\ Valid(in) /\ rows[n] = Row(rows[n].by)
      BY <1>1 DEF IInv, RowInv
    <2>2. rows[n].tenant = in.context.tenant /\ rows[n].facts = in.facts
      BY <2>1 DEF Row, Captured
    <2>3. QED
      BY <2>1, <2>2 DEF Valid, ScopeOK, ResourceOK, ManifestOK
  <1>2. ASSUME IInv, NEW c \in Call, got[c] # None
        PROVE  /\ OwnerOf[ProjectOf[entry[c].name]] = entry[c].context.tenant
               /\ rows[entry[c].name].facts = got[c]
    BY <1>2 DEF IInv, CopyInv, Valid, ScopeOK, ResourceOK, ManifestOK
  <1>3. IInv => TenantsApart BY <1>1, <1>2 DEF TenantsApart
  <1>4. QED BY <1>3, ApiInvariant, PTL

\* Nothing is registered or answered for a tenant that held no authority at
\* any time between entry and decision.
THEOREM ApiAuthorityHeld == Spec => []AuthorityHeld
  <1>1. IInv => AuthorityHeld
    BY DEF IInv, TypeOK, CopyInv, RowInv, AuthorityHeld
  <1>2. QED BY <1>1, ApiInvariant, PTL

\* Every row's time column is its manifest's createdAt, exactly.
THEOREM ApiInstantExact == Spec => []InstantExact
  <1>1. ASSUME IInv, NEW n \in Name, rows[n] # None
        PROVE  /\ rows[n].createdAt.micro \in 0..(Micros - 1)
               /\ rows[n].createdAt.second * Micros + rows[n].createdAt.micro
                    = CreatedAt[rows[n].facts]
    <2>1. CreatedAt[rows[n].facts] \in Int
      BY <1>1, ApiAssumption DEF ApiAssumption, IInv, TypeOK, StoredRow
    <2>2. rows[n].createdAt = SqlInstant(CreatedAt[rows[n].facts])
      <3>1. rows[n] = Row(rows[n].by) BY <1>1 DEF IInv, RowInv
      <3>2. rows[n].createdAt = SqlInstant(CreatedAt[Captured(rows[n].by).facts])
        BY <3>1 DEF Row
      <3>3. rows[n].facts = Captured(rows[n].by).facts BY <3>1 DEF Row
      <3>4. QED BY <3>2, <3>3
    <2>3. QED BY <2>1, <2>2, SqlInstantExact DEF Timestamp
  <1>2. IInv => InstantExact BY <1>1 DEF InstantExact
  <1>3. QED BY <1>2, ApiInvariant, PTL

-----------------------------------------------------------------------------
(* What calls are told.                                                    *)

\* A step writes at most the free name of a seed, which it answers OK or which
\* was answered UNAVAILABLE before.
LEMMA RowsGrow ==
  ASSUME IInv, [Next]_vars
  PROVE  \A n \in Name :
           \/ rows'[n] = rows[n]
           \/ /\ rows[n] = None
              /\ \E c \in Call : /\ rows'[n] = Row(c) /\ copy[c].name = n
                                 /\ answer'[c] \in {"OK", "UNAVAILABLE"}
  <1>1. ASSUME NEW c \in Call, StoreSeed(c), InCalendar(c)
        PROVE  \A n \in Name : rows'[n] # rows[n] =>
                 rows[n] = None /\ rows'[n] = Row(c) /\ copy[c].name = n
                                /\ answer'[c] = "OK"
    <2>1. \A n \in Name : rows'[n] # rows[n] =>
            n = copy[c].name /\ rows'[n] = Row(c) /\ rows[n] = None
      BY <1>1, RegisterInv, ApiAssumption
      DEF StoreSeed, IInv, CopyInv, Captured
    <2>2. rows'[copy[c].name] = Row(c) => answer'[c] = "OK"
      BY <1>1 DEF StoreSeed, Finish, IInv, TypeOK, Row, Captured
    <2>3. QED BY <2>1, <2>2
  <1>2. ASSUME NEW c \in Call, LandLate(c)
        PROVE  \A n \in Name : rows'[n] # rows[n] =>
                 rows[n] = None /\ rows'[n] = Row(c) /\ copy[c].name = n
                                /\ answer'[c] = "UNAVAILABLE"
    BY <1>2, RegisterInv, ApiAssumption DEF LandLate, IInv, CopyInv, Captured
  <1>3. CASE UNCHANGED rows BY <1>3
  <1>4. QED
    BY <1>1, <1>2, <1>3
    DEF Next, vars, Enter, Authorize, StoreSeed, StoreRead, StoreUnavailable,
        CallerChanges, Revoke, Grant

\* A call that has ended is not answered again.
LEMMA DoneStays ==
  ASSUME IInv, [Next]_vars, NEW c \in Call, at[c] = "done"
  PROVE  /\ at'[c] = "done" /\ answer'[c] = answer[c]
         /\ entry'[c] = entry[c] /\ got'[c] = got[c]
  BY DEF Next, vars, IInv, TypeOK, Finish, Enter, Authorize, StoreSeed, StoreRead,
         StoreUnavailable, LandLate, CallerChanges, Revoke, Grant

\* A row stays, so what was once true of it stays true.
LEMMA RowsStay ==
  ASSUME IInv, [Next]_vars, NEW n \in Name, rows[n] # None
  PROVE  rows'[n] = rows[n]
  BY RowsGrow

\* A registered manifest is never changed, removed or registered again: the
\* INSERT does nothing on a conflict (registerManifest), nor does a COMMIT that
\* lands after its call was answered.
THEOREM ApiRegistersForGood == Spec => RegisteredForGood
  <1>1. IInv /\ [Next]_vars => [\A n \in Name : rows[n] # None => rows'[n] = rows[n]]_vars
    BY RowsStay
  <1>2. QED BY <1>1, ApiInvariant, PTL DEF Spec, RegisteredForGood

\* What is said of one answered call.
Told(c) ==
    LET row == rows[entry[c].name]
    IN  /\ answer[c] = "OK" =>
             /\ row # None
             /\ row.facts = IF entry[c].op = "seed" THEN entry[c].facts ELSE got[c]
        /\ answer[c] = "CONFLICT" => row # None /\ row.facts # entry[c].facts
Written(n) == rows[n] # None => answer[rows[n].by] \in {"OK", "UNAVAILABLE"}

\* What a call is told is true when it is told.
LEMMA ToldNow ==
  ASSUME IInv, [Next]_vars, NEW c \in Call, at[c] # "done"
  PROVE  Told(c)'
  <1>1. CASE answer'[c] \notin {"OK", "CONFLICT"} BY <1>1 DEF Told
  <1>2. CASE StoreSeed(c) /\ InCalendar(c)
    <2>1. /\ copy[c] \in Offered /\ Valid(copy[c]) /\ copy[c] = entry[c]
          /\ copy[c].op = "seed" /\ entry' = entry
      BY <1>2 DEF StoreSeed, IInv, CopyInv, Captured
    <2>2. rows'[copy[c].name] # None
      BY <1>2, <2>1, RegisterInv, ApiAssumption DEF StoreSeed, Captured
    <2>3. answer'[c] = IF rows'[copy[c].name].facts = copy[c].facts THEN "OK" ELSE "CONFLICT"
      BY <1>2 DEF StoreSeed, Finish, IInv, TypeOK, Captured
    <2>4. QED BY <2>1, <2>2, <2>3 DEF Told
  <1>3. CASE StoreRead(c)
    <2>1. copy[c] = entry[c] /\ copy[c].op = "get" /\ UNCHANGED <<entry, rows>>
      BY <1>3 DEF StoreRead, IInv, CopyInv, Captured
    <2>2. /\ answer'[c] # "CONFLICT"
          /\ answer'[c] = "OK" => /\ rows[copy[c].name] # None
                                  /\ got'[c] = rows[copy[c].name].facts
      BY <1>3 DEF StoreRead, Finish, IInv, TypeOK, Captured
    <2>3. QED BY <2>1, <2>2 DEF Told
  <1>4. answer'[c] \in {"OK", "CONFLICT"} =>
          (StoreSeed(c) /\ InCalendar(c)) \/ StoreRead(c)
    BY DEF Next, vars, IInv, TypeOK, CopyInv, Finish, Enter, Refusal, Authorize, StoreSeed,
           StoreRead, StoreUnavailable, LandLate, CallerChanges, Revoke, Grant
  <1>5. QED BY <1>1, <1>2, <1>3, <1>4

\* And stays true, for rows stay.
LEMMA ToldStays ==
  ASSUME IInv, [Next]_vars, NEW c \in Call, at[c] = "done", Told(c)
  PROVE  Told(c)'
  <1>1. answer[c] \in {"OK", "CONFLICT"} => entry[c].name \in Name
    BY ApiAssumption DEF ApiAssumption, IInv, CopyInv, Input
  <1>2. QED BY <1>1, DoneStays, RowsStay DEF Told

LEMMA WrittenStays ==
  ASSUME IInv, [Next]_vars, NEW n \in Name, Written(n)
  PROVE  Written(n)'
  <1>1. CASE rows'[n] = rows[n]
    <2>1. rows[n] # None => rows[n].by \in Call /\ at[rows[n].by] = "done"
      BY DEF IInv, TypeOK, RowInv, StoredRow
    <2>2. QED BY <1>1, <2>1, DoneStays DEF Written
  <1>2. CASE \E c \in Call : rows'[n] = Row(c) /\ answer'[c] \in {"OK", "UNAVAILABLE"}
    BY <1>2 DEF Row, Written
  <1>3. QED BY <1>1, <1>2, RowsGrow

\* A caller may rely on a definite answer: what it says of the registry is true
\* and stays true, and a refused call registers nothing, ever
\* (get-manifest.ts, seed-manifest.ts over the registry the store implements).
THEOREM ApiAnswersHold == Spec => []AnswersHold
  <1>1. AnswersHold <=> (\A c \in Call : Told(c)) /\ (\A n \in Name : Written(n))
    BY DEF AnswersHold, Told, Written
  <1>2. Init => AnswersHold
    BY DEF Init, AnswersHold
  <1>3. ASSUME IInv, AnswersHold, [Next]_vars PROVE AnswersHold'
    <2>1. \A c \in Call : Told(c)' BY <1>1, <1>3, ToldNow, ToldStays
    <2>2. \A n \in Name : Written(n)' BY <1>1, <1>3, WrittenStays
    <2>3. QED BY <2>1, <2>2 DEF AnswersHold, Told, Written
  <1>4. QED BY <1>2, <1>3, ApiInvariant, PTL DEF Spec

=============================================================================
