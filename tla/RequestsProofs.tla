---------------------------- MODULE RequestsProofs ----------------------------
(***************************************************************************)
(* What holds of the deposit request handler for any number of calls,      *)
(* keys, treasuries and overlaps: types, nonces, idempotency keys, the     *)
(* requests of a client, callbacks and the spread over the treasuries.     *)
(***************************************************************************)
EXTENDS Requests, NaturalLemmas

(* The wallet is chosen once the call is past resolveTreasury.               *)
TreasuryChosen ==
  \A c \in Calls :
    pc[c] \in {"callback", "create", "announce", "target", "store"} => treasury[c] \in Treasuries

(* A call that is past authentication has left its nonce behind.             *)
NoncesUsed == \A c \in Calls : pc[c] # "new" => NonceOf[c] \in nonces

(* Only a call that is over has an answer.                                   *)
AnsweredIsDone == \A c \in Calls : answer[c] # NoAnswer => pc[c] = "done"

(* The row is there before the answer is stored.                             *)
RowMade == \A c \in Calls : pc[c] \in {"announce", "target", "store"} => row[c] # "none"

(* A key has one record, and it names a request made for the recorded body.  *)
RecordsName ==
  /\ \A r, q \in records : r.key = q.key => r = q
  /\ \A r \in records : BodyOf[r.request] = r.hash /\ row[r.request] # "none"

(* Who got an answer with a key got what the key's record says.              *)
AnswersMatch ==
  \A c \in Calls :
    IsOk(c) /\ KeyOf[c] # NoKey
    => [key |-> KeyOf[c], hash |-> BodyOf[c], request |-> answer[c].request] \in records

IInv ==
  /\ TypeOK /\ TreasuryChosen
  /\ NoncesUsed /\ AnsweredIsDone /\ NonceAdmitsOne
  /\ RowMade /\ RecordsName /\ AnswersMatch

-------------------------------------------------------------------------------
LEMMA LoadIsNatural == \A t : Load(t) \in Nat
BY RequestsAssumption, FS_Subset, FS_CardinalityType DEF Load

(* selectLeastPendingTreasury: it returns a wallet, and none has fewer active *)
(* direct requests.                                                         *)
LEMMA LeastPendingIsLeast ==
  LeastPending \in Treasuries /\ \A u \in Treasuries : Load(LeastPending) <= Load(u)
<1> DEFINE loads == {Load(t) : t \in Treasuries}
<1>1. loads \subseteq Nat /\ loads # {}
  BY LoadIsNatural, RequestsAssumption
<1>2. PICK n \in loads : \A m \in loads : n <= m
  BY <1>1, LeastNatural
<1> DEFINE least == {t \in Treasuries : Load(t) = n}
<1>3. least \subseteq Nat /\ least # {}
  BY <1>2, RequestsAssumption
<1>4. PICK t \in least : \A u \in least : t <= u
  BY <1>3, LeastNatural
<1>5. \A u \in Treasuries : Load(t) < Load(u) \/ (Load(t) = Load(u) /\ t <= u)
  BY <1>1, <1>2, <1>4
<1>6. t \in Treasuries
  BY <1>4
<1> HIDE DEF loads, least
<1>7. LeastPending \in Treasuries /\ \A u \in Treasuries :
        Load(LeastPending) < Load(u) \/ (Load(LeastPending) = Load(u) /\ LeastPending <= u)
  BY <1>5, <1>6 DEF LeastPending
<1> QED BY <1>7, LoadIsNatural

LEMMA ResolvedIsTreasury == \A c \in Calls : Resolved(c) \in Treasuries
BY LeastPendingIsLeast, RequestsAssumption DEF Resolved
-------------------------------------------------------------------------------
(***************************************************************************)
(* The initial states, and one lemma for each part of the invariant.       *)
(***************************************************************************)
LEMMA InitIInv == Init => IInv
BY RequestsAssumption DEF Init, IInv, TypeOK, TreasuryChosen, NoncesUsed, AnsweredIsDone,
   NonceAdmitsOne, RowMade, RecordsName, AnswersMatch, IsOk, Places, Answers, NoAnswer

(* Types, and the chosen wallet. *)
LEMMA TypeStep ==
  ASSUME IInv, [Next]_vars
  PROVE  TypeOK' /\ TreasuryChosen'
<1> USE DEF IInv, TypeOK, TreasuryChosen, Places, Answers, Refusals, settingVars, handlerVars, boundVars
<1>1. ASSUME NEW c \in Calls, Authenticate(c) PROVE TypeOK' /\ TreasuryChosen'
  BY <1>1, RequestsAssumption DEF Authenticate, Answer, Goto, Refused, Fresh, Open
<1>2. ASSUME NEW c \in Calls, CheckKey(c) PROVE TypeOK' /\ TreasuryChosen'
  BY <1>2, RequestsAssumption DEF CheckKey, Answer, Goto, Refused, Ok, Seen, SameBody, Records
<1>3. ASSUME NEW c \in Calls, ReadMerchant(c) PROVE TypeOK' /\ TreasuryChosen'
  BY <1>3 DEF ReadMerchant, Goto
<1>4. ASSUME NEW c \in Calls, CheckClient(c) PROVE TypeOK' /\ TreasuryChosen'
  BY <1>4 DEF CheckClient, Answer, Goto, Refused
<1>5. ASSUME NEW c \in Calls, ResolveTreasury(c) PROVE TypeOK' /\ TreasuryChosen'
  BY <1>5, ResolvedIsTreasury DEF ResolveTreasury, Goto
<1>6. ASSUME NEW c \in Calls, CheckConfiguration(c) PROVE TypeOK' /\ TreasuryChosen'
  BY <1>6 DEF CheckConfiguration, Answer, Goto, Refused
<1>7. ASSUME NEW c \in Calls, Create(c) PROVE TypeOK' /\ TreasuryChosen'
  BY <1>7 DEF Create, Goto
<1>8. ASSUME NEW c \in Calls, CheckPreferences(c) PROVE TypeOK' /\ TreasuryChosen'
  BY <1>8 DEF CheckPreferences, Goto
<1>9. ASSUME NEW c \in Calls, Announce(c) PROVE TypeOK' /\ TreasuryChosen'
  BY <1>9 DEF Announce, Goto
<1>10. ASSUME NEW c \in Calls, Store(c) PROVE TypeOK' /\ TreasuryChosen'
  BY <1>10, RequestsAssumption DEF Store, Answer, Goto, Refused, Ok, Free, Records
<1>11. ASSUME NEW c \in Calls, EndRequest(c) PROVE TypeOK' /\ TreasuryChosen'
  BY <1>11 DEF EndRequest
<1>12. ASSUME ChangeSettings PROVE TypeOK' /\ TreasuryChosen'
  BY <1>12 DEF ChangeSettings
<1>13. ASSUME ChangeCallback PROVE TypeOK' /\ TreasuryChosen'
  BY <1>13 DEF ChangeCallback
<1>14. ASSUME ChangePreferences PROVE TypeOK' /\ TreasuryChosen'
  BY <1>14 DEF ChangePreferences
<1>15. ASSUME Abort PROVE TypeOK' /\ TreasuryChosen'
  BY <1>15 DEF Abort, AfterError, Refused, Open
<1>16. CASE UNCHANGED vars
  BY <1>16 DEF vars
<1> QED
  BY <1>1, <1>2, <1>3, <1>4, <1>5, <1>6, <1>7, <1>8, <1>9, <1>10, <1>11, <1>12, <1>13, <1>14, <1>15, <1>16
     DEF Next, Handle

(* Nonces: one that is new belongs to no call that was admitted before. *)
LEMMA NonceStep ==
  ASSUME IInv, [Next]_vars
  PROVE  NoncesUsed' /\ AnsweredIsDone' /\ NonceAdmitsOne'
<1> USE DEF IInv, TypeOK, Places, NoncesUsed, AnsweredIsDone, NonceAdmitsOne, NoAnswer, settingVars, handlerVars, boundVars
<1>1. ASSUME NEW c \in Calls, Authenticate(c) PROVE NoncesUsed' /\ AnsweredIsDone' /\ NonceAdmitsOne'
  BY <1>1 DEF Authenticate, Answer, Goto, Refused, Fresh
<1>2. ASSUME NEW c \in Calls, CheckKey(c) PROVE NoncesUsed' /\ AnsweredIsDone' /\ NonceAdmitsOne'
  BY <1>2 DEF CheckKey, Answer, Goto, Refused, Ok, Seen, SameBody
<1>3. ASSUME NEW c \in Calls, ReadMerchant(c) PROVE NoncesUsed' /\ AnsweredIsDone' /\ NonceAdmitsOne'
  BY <1>3 DEF ReadMerchant, Goto
<1>4. ASSUME NEW c \in Calls, CheckClient(c) PROVE NoncesUsed' /\ AnsweredIsDone' /\ NonceAdmitsOne'
  BY <1>4 DEF CheckClient, Answer, Goto, Refused
<1>5. ASSUME NEW c \in Calls, ResolveTreasury(c) PROVE NoncesUsed' /\ AnsweredIsDone' /\ NonceAdmitsOne'
  BY <1>5 DEF ResolveTreasury, Goto
<1>6. ASSUME NEW c \in Calls, CheckConfiguration(c) PROVE NoncesUsed' /\ AnsweredIsDone' /\ NonceAdmitsOne'
  BY <1>6 DEF CheckConfiguration, Answer, Goto, Refused
<1>7. ASSUME NEW c \in Calls, Create(c) PROVE NoncesUsed' /\ AnsweredIsDone' /\ NonceAdmitsOne'
  BY <1>7 DEF Create, Goto
<1>8. ASSUME NEW c \in Calls, CheckPreferences(c) PROVE NoncesUsed' /\ AnsweredIsDone' /\ NonceAdmitsOne'
  BY <1>8 DEF CheckPreferences, Goto
<1>9. ASSUME NEW c \in Calls, Announce(c) PROVE NoncesUsed' /\ AnsweredIsDone' /\ NonceAdmitsOne'
  BY <1>9 DEF Announce, Goto
<1>10. ASSUME NEW c \in Calls, Store(c) PROVE NoncesUsed' /\ AnsweredIsDone' /\ NonceAdmitsOne'
  BY <1>10 DEF Store, Answer, Goto, Refused, Ok, Free
<1>11. ASSUME NEW c \in Calls, EndRequest(c) PROVE NoncesUsed' /\ AnsweredIsDone' /\ NonceAdmitsOne'
  BY <1>11 DEF EndRequest
<1>12. ASSUME ChangeSettings PROVE NoncesUsed' /\ AnsweredIsDone' /\ NonceAdmitsOne'
  BY <1>12 DEF ChangeSettings
<1>13. ASSUME ChangeCallback PROVE NoncesUsed' /\ AnsweredIsDone' /\ NonceAdmitsOne'
  BY <1>13 DEF ChangeCallback
<1>14. ASSUME ChangePreferences PROVE NoncesUsed' /\ AnsweredIsDone' /\ NonceAdmitsOne'
  BY <1>14 DEF ChangePreferences
<1>15. ASSUME Abort PROVE NoncesUsed' /\ AnsweredIsDone' /\ NonceAdmitsOne'
  BY <1>15 DEF Abort, AfterError, Refused, Open
<1>16. CASE UNCHANGED vars
  BY <1>16 DEF vars
<1> QED
  BY <1>1, <1>2, <1>3, <1>4, <1>5, <1>6, <1>7, <1>8, <1>9, <1>10, <1>11, <1>12, <1>13, <1>14, <1>15, <1>16
     DEF Next, Handle

(* Keys: a record is written once and only ever answered from. *)
LEMMA KeyStep ==
  ASSUME IInv, [Next]_vars
  PROVE  RowMade' /\ RecordsName' /\ AnswersMatch'
<1> USE DEF IInv, TypeOK, Places, Records, RowMade, RecordsName, AnswersMatch, IsOk, settingVars, handlerVars, boundVars
<1>1. ASSUME NEW c \in Calls, Authenticate(c) PROVE RowMade' /\ RecordsName' /\ AnswersMatch'
  BY <1>1 DEF Authenticate, Answer, Goto, Refused, Fresh
<1>2. ASSUME NEW c \in Calls, CheckKey(c) PROVE RowMade' /\ RecordsName' /\ AnswersMatch'
  BY <1>2, RequestsAssumption DEF CheckKey, Answer, Goto, Refused, Ok, Seen, SameBody
<1>3. ASSUME NEW c \in Calls, ReadMerchant(c) PROVE RowMade' /\ RecordsName' /\ AnswersMatch'
  BY <1>3 DEF ReadMerchant, Goto
<1>4. ASSUME NEW c \in Calls, CheckClient(c) PROVE RowMade' /\ RecordsName' /\ AnswersMatch'
  BY <1>4 DEF CheckClient, Answer, Goto, Refused
<1>5. ASSUME NEW c \in Calls, ResolveTreasury(c) PROVE RowMade' /\ RecordsName' /\ AnswersMatch'
  BY <1>5 DEF ResolveTreasury, Goto
<1>6. ASSUME NEW c \in Calls, CheckConfiguration(c) PROVE RowMade' /\ RecordsName' /\ AnswersMatch'
  BY <1>6 DEF CheckConfiguration, Answer, Goto, Refused
<1>7. ASSUME NEW c \in Calls, Create(c) PROVE RowMade' /\ RecordsName' /\ AnswersMatch'
  BY <1>7 DEF Create, Goto
<1>8. ASSUME NEW c \in Calls, CheckPreferences(c) PROVE RowMade' /\ RecordsName' /\ AnswersMatch'
  BY <1>8 DEF CheckPreferences, Goto
<1>9. ASSUME NEW c \in Calls, Announce(c) PROVE RowMade' /\ RecordsName' /\ AnswersMatch'
  BY <1>9 DEF Announce, Goto
<1>10. ASSUME NEW c \in Calls, Store(c) PROVE RowMade' /\ RecordsName' /\ AnswersMatch'
  BY <1>10, RequestsAssumption DEF Store, Answer, Goto, Refused, Ok, Free
<1>11. ASSUME NEW c \in Calls, EndRequest(c) PROVE RowMade' /\ RecordsName' /\ AnswersMatch'
  BY <1>11 DEF EndRequest
<1>12. ASSUME ChangeSettings PROVE RowMade' /\ RecordsName' /\ AnswersMatch'
  BY <1>12 DEF ChangeSettings
<1>13. ASSUME ChangeCallback PROVE RowMade' /\ RecordsName' /\ AnswersMatch'
  BY <1>13 DEF ChangeCallback
<1>14. ASSUME ChangePreferences PROVE RowMade' /\ RecordsName' /\ AnswersMatch'
  BY <1>14 DEF ChangePreferences
<1>15. ASSUME Abort PROVE RowMade' /\ RecordsName' /\ AnswersMatch'
  BY <1>15 DEF Abort, AfterError, Refused, Open
<1>16. CASE UNCHANGED vars
  BY <1>16 DEF vars
<1> QED
  BY <1>1, <1>2, <1>3, <1>4, <1>5, <1>6, <1>7, <1>8, <1>9, <1>10, <1>11, <1>12, <1>13, <1>14, <1>15, <1>16
     DEF Next, Handle

-------------------------------------------------------------------------------
(***************************************************************************)
(* Calls that overlap: what a check has found out stays true of the calls  *)
(* that were not in progress with it.                                      *)
(***************************************************************************)

(* Two calls in progress overlap. *)
OpenOverlap == \A c, d \in Open : c # d => {c, d} \in overlaps

(* A call with a row is past its insert. *)
RowPlace == \A c \in Calls : row[c] # "none" => pc[c] \in {"announce", "target", "store", "done"}

(* A call that made a row and ended by itself left its key, or found it taken. *)
KeyWritten ==
  aborts = 0 =>
    \A c \in Calls :
      row[c] # "none" /\ pc[c] = "done" /\ KeyOf[c] # NoKey => \E r \in records : r.key = KeyOf[c]

(* A call that found no record of its key overlaps those that made a row for it. *)
PastKey == {"merchant", "client", "treasury", "callback", "create", "announce", "target", "store"}
KeyHeld ==
  aborts = 0 =>
    \A c, d \in Calls :
      /\ c # d /\ KeyOf[c] = KeyOf[d] /\ KeyOf[c] # NoKey
      /\ row[c] # "none" /\ (pc[d] \in PastKey \/ row[d] # "none")
      => {c, d} \in overlaps

(* So does a call that found no active request of its client. *)
ClientHeld ==
  \A c, d \in Calls :
    /\ c # d /\ Client(c) = Client(d)
    /\ row[c] = "active" /\ (pc[d] \in {"treasury", "callback", "create"} \/ row[d] = "active")
    => c \in exempt \/ d \in exempt \/ {c, d} \in overlaps

(* The event comes before the key and the answer, and what creation checked    *)
(* still holds when enqueueMerchantEvent looks at it.                          *)
Heard == announced \union silent
AnnouncedOK ==
  /\ \A c \in Calls : pc[c] = "store" => c \in Heard
  /\ \A r \in records : r.request \in Heard
  /\ \A c \in Calls : IsOk(c) => answer[c].request \in Heard
  /\ changes = 0 =>
       \A c \in Calls :
         /\ pc[c] \in {"create", "announce", "target"} => HasCallback(c)
         /\ c \in silent => CreatedEvent(c) \notin enabled \/ (BodyOf[c] \in WithUrl /\ ~ config)

OInv == OpenOverlap /\ RowPlace /\ KeyWritten /\ KeyHeld /\ ClientHeld /\ AnnouncedOK

LEMMA InitOInv == Init => OInv
BY DEF Init, OInv, OpenOverlap, RowPlace, KeyWritten, KeyHeld, ClientHeld, AnnouncedOK, Heard, Open, Places,
   PastKey, IsOk, NoAnswer

(* Calls in progress, and the rows they have made. *)
LEMMA OverlapStep ==
  ASSUME IInv, OInv, [Next]_vars
  PROVE  OpenOverlap' /\ RowPlace'
<1> USE DEF IInv, TypeOK, OInv, OpenOverlap, RowPlace, Open, Places, settingVars, handlerVars, boundVars
<1>1. ASSUME NEW a \in Calls, Authenticate(a) PROVE OpenOverlap' /\ RowPlace'
  BY <1>1 DEF Authenticate, Answer, Goto, Refused, Fresh
<1>2. ASSUME NEW a \in Calls, CheckKey(a) PROVE OpenOverlap' /\ RowPlace'
  BY <1>2 DEF CheckKey, Answer, Goto, Refused, Ok, Seen, SameBody
<1>3. ASSUME NEW a \in Calls, ReadMerchant(a) PROVE OpenOverlap' /\ RowPlace'
  BY <1>3 DEF ReadMerchant, Goto
<1>4. ASSUME NEW a \in Calls, CheckClient(a) PROVE OpenOverlap' /\ RowPlace'
  BY <1>4 DEF CheckClient, Answer, Goto, Refused, Pending
<1>5. ASSUME NEW a \in Calls, ResolveTreasury(a) PROVE OpenOverlap' /\ RowPlace'
  BY <1>5 DEF ResolveTreasury, Goto
<1>6. ASSUME NEW a \in Calls, CheckConfiguration(a) PROVE OpenOverlap' /\ RowPlace'
  BY <1>6 DEF CheckConfiguration, Answer, Goto, Refused, HasCallback
<1>7. ASSUME NEW a \in Calls, Create(a) PROVE OpenOverlap' /\ RowPlace'
  BY <1>7 DEF Create, Goto
<1>8. ASSUME NEW a \in Calls, CheckPreferences(a) PROVE OpenOverlap' /\ RowPlace'
  BY <1>8 DEF CheckPreferences, Goto
<1>9. ASSUME NEW a \in Calls, Announce(a) PROVE OpenOverlap' /\ RowPlace'
  BY <1>9 DEF Announce, Goto
<1>10. ASSUME NEW a \in Calls, Store(a) PROVE OpenOverlap' /\ RowPlace'
  BY <1>10 DEF Store, Answer, Goto, Refused, Ok, Free
<1>11. ASSUME NEW a \in Calls, EndRequest(a) PROVE OpenOverlap' /\ RowPlace'
  BY <1>11 DEF EndRequest
<1>12. ASSUME ChangeSettings PROVE OpenOverlap' /\ RowPlace'
  BY <1>12 DEF ChangeSettings
<1>13. ASSUME ChangeCallback PROVE OpenOverlap' /\ RowPlace'
  BY <1>13 DEF ChangeCallback
<1>14. ASSUME ChangePreferences PROVE OpenOverlap' /\ RowPlace'
  BY <1>14 DEF ChangePreferences
<1>15. ASSUME Abort PROVE OpenOverlap' /\ RowPlace'
  BY <1>15 DEF Abort, AfterError, Refused
<1>16. CASE UNCHANGED vars
  BY <1>16 DEF vars
<1> QED
  BY <1>1, <1>2, <1>3, <1>4, <1>5, <1>6, <1>7, <1>8, <1>9, <1>10, <1>11, <1>12, <1>13, <1>14, <1>15, <1>16
     DEF Next, Handle

(* Keys: the record is there before the call is over. *)
LEMMA KeyHeldStep ==
  ASSUME IInv, OInv, [Next]_vars
  PROVE  KeyWritten' /\ KeyHeld'
<1> USE DEF IInv, TypeOK, OInv, OpenOverlap, RowPlace, KeyWritten, KeyHeld, PastKey, Open, Places, Records, settingVars, handlerVars, boundVars
<1>1. ASSUME NEW a \in Calls, Authenticate(a) PROVE KeyWritten' /\ KeyHeld'
  BY <1>1 DEF Authenticate, Answer, Goto, Refused, Fresh
<1>2. ASSUME NEW a \in Calls, CheckKey(a) PROVE KeyWritten' /\ KeyHeld'
  BY <1>2 DEF CheckKey, Answer, Goto, Refused, Ok, Seen, SameBody
<1>3. ASSUME NEW a \in Calls, ReadMerchant(a) PROVE KeyWritten' /\ KeyHeld'
  BY <1>3 DEF ReadMerchant, Goto
<1>4. ASSUME NEW a \in Calls, CheckClient(a) PROVE KeyWritten' /\ KeyHeld'
  BY <1>4 DEF CheckClient, Answer, Goto, Refused, Pending
<1>5. ASSUME NEW a \in Calls, ResolveTreasury(a) PROVE KeyWritten' /\ KeyHeld'
  BY <1>5 DEF ResolveTreasury, Goto
<1>6. ASSUME NEW a \in Calls, CheckConfiguration(a) PROVE KeyWritten' /\ KeyHeld'
  BY <1>6 DEF CheckConfiguration, Answer, Goto, Refused, HasCallback
<1>7. ASSUME NEW a \in Calls, Create(a) PROVE KeyWritten' /\ KeyHeld'
  <2>1. KeyWritten'
    BY <1>7 DEF Create, Goto
  <2>2. KeyHeld'
    <3> SUFFICES ASSUME aborts = 0, NEW c \in Calls, NEW d \in Calls, c # d,
                        KeyOf[c] = KeyOf[d], KeyOf[c] # NoKey,
                        row'[c] # "none", pc'[d] \in PastKey \/ row'[d] # "none"
                 PROVE  {c, d} \in overlaps
      BY <1>7 DEF Create
    <3>1. CASE c # a /\ d # a
      BY <1>7, <3>1 DEF Create, Goto
    <3>2. CASE c # a /\ d = a
      BY <1>7, <3>2 DEF Create, Goto
    <3>3. CASE c = a
      <4>1. pc[c] \in Places /\ (pc[d] \in PastKey \/ row[d] # "none")
        BY <1>7, <3>3 DEF Create, Goto
      <4>2. CASE pc[d] \in PastKey
        BY <4>1, <4>2
      <4>3. CASE row[d] # "none"
        <5>1. {d, c} \in overlaps
          BY <1>7, <3>3, <4>3 DEF Create
        <5> QED BY <5>1, {d, c} = {c, d}
      <4> QED BY <4>1, <4>2, <4>3
    <3> QED BY <3>1, <3>2, <3>3
  <2> QED BY <2>1, <2>2
<1>8. ASSUME NEW a \in Calls, CheckPreferences(a) PROVE KeyWritten' /\ KeyHeld'
  BY <1>8 DEF CheckPreferences, Goto
<1>9. ASSUME NEW a \in Calls, Announce(a) PROVE KeyWritten' /\ KeyHeld'
  BY <1>9 DEF Announce, Goto
<1>10. ASSUME NEW a \in Calls, Store(a) PROVE KeyWritten' /\ KeyHeld'
  <2>1. KeyHeld'
    BY <1>10 DEF Store, Answer, Goto
  <2>2. KeyWritten'
    <3>1. records \subseteq records'
      BY <1>10 DEF Store
    <3>2. KeyOf[a] # NoKey => \E r \in records' : r.key = KeyOf[a]
      <4>1. CASE Free(KeyOf[a]) /\ KeyOf[a] # NoKey
        <5>1. [key |-> KeyOf[a], hash |-> BodyOf[a], request |-> a] \in records'
          BY <1>10, <4>1 DEF Store
        <5> QED BY <5>1
      <4>2. CASE ~ Free(KeyOf[a])
        BY <3>1, <4>2 DEF Free
      <4> QED BY <4>1, <4>2
    <3>3. row' = row /\ aborts' = aborts /\ (\A c \in Calls : c # a => pc'[c] = pc[c])
      BY <1>10 DEF Store, Answer, Goto
    <3> QED BY <3>1, <3>2, <3>3
  <2> QED BY <2>1, <2>2
<1>11. ASSUME NEW a \in Calls, EndRequest(a) PROVE KeyWritten' /\ KeyHeld'
  BY <1>11 DEF EndRequest
<1>12. ASSUME ChangeSettings PROVE KeyWritten' /\ KeyHeld'
  BY <1>12 DEF ChangeSettings
<1>13. ASSUME ChangeCallback PROVE KeyWritten' /\ KeyHeld'
  BY <1>13 DEF ChangeCallback
<1>14. ASSUME ChangePreferences PROVE KeyWritten' /\ KeyHeld'
  BY <1>14 DEF ChangePreferences
<1>15. ASSUME Abort PROVE KeyWritten' /\ KeyHeld'
  BY <1>15 DEF Abort, AfterError, Refused
<1>16. CASE UNCHANGED vars
  BY <1>16 DEF vars
<1> QED
  BY <1>1, <1>2, <1>3, <1>4, <1>5, <1>6, <1>7, <1>8, <1>9, <1>10, <1>11, <1>12, <1>13, <1>14, <1>15, <1>16
     DEF Next, Handle

(* Clients: the row is there before a later call looks for it. *)
LEMMA ClientHeldStep ==
  ASSUME IInv, OInv, [Next]_vars
  PROVE  ClientHeld'
<1> USE DEF IInv, TypeOK, OInv, OpenOverlap, RowPlace, ClientHeld, Open, Places, settingVars, handlerVars, boundVars
<1>1. ASSUME NEW a \in Calls, Authenticate(a) PROVE ClientHeld'
  BY <1>1 DEF Authenticate, Answer, Goto, Refused, Fresh
<1>2. ASSUME NEW a \in Calls, CheckKey(a) PROVE ClientHeld'
  BY <1>2 DEF CheckKey, Answer, Goto, Refused, Ok, Seen, SameBody
<1>3. ASSUME NEW a \in Calls, ReadMerchant(a) PROVE ClientHeld'
  BY <1>3 DEF ReadMerchant, Goto
<1>4. ASSUME NEW a \in Calls, CheckClient(a) PROVE ClientHeld'
  BY <1>4 DEF CheckClient, Answer, Goto, Refused, Pending
<1>5. ASSUME NEW a \in Calls, ResolveTreasury(a) PROVE ClientHeld'
  BY <1>5 DEF ResolveTreasury, Goto
<1>6. ASSUME NEW a \in Calls, CheckConfiguration(a) PROVE ClientHeld'
  BY <1>6 DEF CheckConfiguration, Answer, Goto, Refused, HasCallback
<1>7. ASSUME NEW a \in Calls, Create(a) PROVE ClientHeld'
  BY <1>7 DEF Create, Goto
<1>8. ASSUME NEW a \in Calls, CheckPreferences(a) PROVE ClientHeld'
  BY <1>8 DEF CheckPreferences, Goto
<1>9. ASSUME NEW a \in Calls, Announce(a) PROVE ClientHeld'
  BY <1>9 DEF Announce, Goto
<1>10. ASSUME NEW a \in Calls, Store(a) PROVE ClientHeld'
  BY <1>10 DEF Store, Answer, Goto, Refused, Ok, Free
<1>11. ASSUME NEW a \in Calls, EndRequest(a) PROVE ClientHeld'
  BY <1>11 DEF EndRequest
<1>12. ASSUME ChangeSettings PROVE ClientHeld'
  BY <1>12 DEF ChangeSettings
<1>13. ASSUME ChangeCallback PROVE ClientHeld'
  BY <1>13 DEF ChangeCallback
<1>14. ASSUME ChangePreferences PROVE ClientHeld'
  BY <1>14 DEF ChangePreferences
<1>15. ASSUME Abort PROVE ClientHeld'
  BY <1>15 DEF Abort, AfterError, Refused
<1>16. CASE UNCHANGED vars
  BY <1>16 DEF vars
<1> QED
  BY <1>1, <1>2, <1>3, <1>4, <1>5, <1>6, <1>7, <1>8, <1>9, <1>10, <1>11, <1>12, <1>13, <1>14, <1>15, <1>16
     DEF Next, Handle

(* Callbacks: each call decides about its event before it stores and answers. *)
LEMMA AnnouncedStep ==
  ASSUME IInv, OInv, [Next]_vars
  PROVE  AnnouncedOK'
<1> USE DEF IInv, TypeOK, OInv, RowPlace, RecordsName, AnsweredIsDone, AnnouncedOK, Heard, HasCallback, CreatedEvent, IsDirect, IsOk, NoAnswer, Places, Records, settingVars, handlerVars, boundVars
<1>1. ASSUME NEW a \in Calls, Authenticate(a) PROVE AnnouncedOK'
  BY <1>1 DEF Authenticate, Answer, Goto, Refused, Fresh
<1>2. ASSUME NEW a \in Calls, CheckKey(a) PROVE AnnouncedOK'
  BY <1>2 DEF CheckKey, Answer, Goto, Refused, Ok, Seen, SameBody
<1>3. ASSUME NEW a \in Calls, ReadMerchant(a) PROVE AnnouncedOK'
  BY <1>3 DEF ReadMerchant, Goto
<1>4. ASSUME NEW a \in Calls, CheckClient(a) PROVE AnnouncedOK'
  BY <1>4 DEF CheckClient, Answer, Goto, Refused, Pending
<1>5. ASSUME NEW a \in Calls, ResolveTreasury(a) PROVE AnnouncedOK'
  BY <1>5 DEF ResolveTreasury, Goto
<1>6. ASSUME NEW a \in Calls, CheckConfiguration(a) PROVE AnnouncedOK'
  BY <1>6 DEF CheckConfiguration, Answer, Goto, Refused, HasCallback
<1>7. ASSUME NEW a \in Calls, Create(a) PROVE AnnouncedOK'
  BY <1>7 DEF Create, Goto
<1>8. ASSUME NEW a \in Calls, CheckPreferences(a) PROVE AnnouncedOK'
  BY <1>8 DEF CheckPreferences, Goto
<1>9. ASSUME NEW a \in Calls, Announce(a) PROVE AnnouncedOK'
  BY <1>9 DEF Announce, Goto
<1>10. ASSUME NEW a \in Calls, Store(a) PROVE AnnouncedOK'
  BY <1>10 DEF Store, Answer, Goto, Refused, Ok, Free
<1>11. ASSUME NEW a \in Calls, EndRequest(a) PROVE AnnouncedOK'
  BY <1>11 DEF EndRequest
<1>12. ASSUME ChangeSettings PROVE AnnouncedOK'
  BY <1>12 DEF ChangeSettings
<1>13. ASSUME ChangeCallback PROVE AnnouncedOK'
  BY <1>13 DEF ChangeCallback
<1>14. ASSUME ChangePreferences PROVE AnnouncedOK'
  BY <1>14 DEF ChangePreferences
<1>15. ASSUME Abort PROVE AnnouncedOK'
  BY <1>15 DEF Abort, AfterError, Refused
<1>16. CASE UNCHANGED vars
  BY <1>16 DEF vars
<1> QED
  BY <1>1, <1>2, <1>3, <1>4, <1>5, <1>6, <1>7, <1>8, <1>9, <1>10, <1>11, <1>12, <1>13, <1>14, <1>15, <1>16
     DEF Next, Handle

-------------------------------------------------------------------------------
(***************************************************************************)
(* The spread of direct requests over the treasuries.                      *)
(***************************************************************************)

(* The direct requests a wallet is counted with, and the calls that chose it *)
(* and have not made their row: at most the calls in progress.               *)
ActiveOn(t) == {c \in Calls : IsDirect(c) /\ row[c] = "active" /\ treasury[c] = t}
ChoseOnly(t) == {c \in Calls : IsDirect(c) /\ pc[c] \in {"callback", "create"} /\ treasury[c] = t}

OpenBounded == Cardinality(Open) <= MaxOpen

Unnamed == \A c \in Calls : IsDirect(c) => Wanted[BodyOf[c]] = 0

(* A wallet was the least loaded one when it was last chosen, and the calls   *)
(* that chose it before it was counted are in progress.                       *)
Spread ==
  ends = 0 /\ Unnamed =>
    \A t, u \in Treasuries :
      Cardinality(ActiveOn(t)) + Cardinality(ChoseOnly(t)) <= Cardinality(ActiveOn(u)) + MaxOpen

LEMMA LoadIsActive == \A t : Load(t) = Cardinality(ActiveOn(t))
BY DEF Load, ActiveOn

LEMMA CountsAreNatural ==
  ASSUME NEW t
  PROVE  /\ IsFiniteSet(ActiveOn(t)) /\ Cardinality(ActiveOn(t)) \in Nat
         /\ IsFiniteSet(ChoseOnly(t)) /\ Cardinality(ChoseOnly(t)) \in Nat
<1>1. ActiveOn(t) \subseteq Calls /\ ChoseOnly(t) \subseteq Calls
  BY DEF ActiveOn, ChoseOnly
<1> QED BY <1>1, RequestsAssumption, FS_Subset, FS_CardinalityType

LEMMA OneElementLess ==
  ASSUME NEW S, IsFiniteSet(S), NEW x \in S
  PROVE  Cardinality(S \ {x}) = Cardinality(S) - 1
BY FS_RemoveElement

LEMMA OpenIsFinite == IsFiniteSet(Open) /\ Cardinality(Open) \in Nat
<1>1. Open \subseteq Calls
  BY DEF Open
<1> QED BY <1>1, RequestsAssumption, FS_Subset, FS_CardinalityType

(* A step that leaves the rows, the wallets and who is in progress as they    *)
(* are, or takes calls away, keeps both bounds.                               *)
LEMMA SpreadFrame ==
  ASSUME IInv, OpenBounded, Spread, ends' = ends,
         Open' \subseteq Open,
         \A t : ActiveOn(t)' = ActiveOn(t) /\ ChoseOnly(t)' \subseteq ChoseOnly(t)
  PROVE  OpenBounded' /\ Spread'
<1>1. Cardinality(Open') <= Cardinality(Open) /\ Cardinality(Open') \in Nat
  BY OpenIsFinite, FS_Subset, FS_CardinalityType
<1>2. OpenBounded'
  BY <1>1, OpenIsFinite, RequestsAssumption DEF OpenBounded
<1>3. \A t : Cardinality(ChoseOnly(t)') <= Cardinality(ChoseOnly(t)) /\ Cardinality(ChoseOnly(t)') \in Nat
  <2> SUFFICES ASSUME NEW t
               PROVE  /\ Cardinality(ChoseOnly(t)') <= Cardinality(ChoseOnly(t))
                      /\ Cardinality(ChoseOnly(t)') \in Nat
    OBVIOUS
  <2> QED BY CountsAreNatural, FS_Subset, FS_CardinalityType
<1>4. Spread'
  <2> SUFFICES ASSUME ends' = 0, Unnamed, NEW t \in Treasuries, NEW u \in Treasuries
               PROVE  Cardinality(ActiveOn(t)') + Cardinality(ChoseOnly(t)')
                      <= Cardinality(ActiveOn(u)') + MaxOpen
    BY DEF Spread, Unnamed, IsDirect
  <2>1. Cardinality(ActiveOn(t)) + Cardinality(ChoseOnly(t)) <= Cardinality(ActiveOn(u)) + MaxOpen
    BY DEF Spread
  <2> HIDE DEF ActiveOn, ChoseOnly
  <2> QED BY <1>3, <2>1, CountsAreNatural, RequestsAssumption
<1> QED BY <1>2, <1>4

(* The steps that change neither which calls wait nor the rows. *)
LEMMA SpreadStep ==
  ASSUME IInv, OInv, OpenBounded, Spread, [Next]_vars
  PROVE  OpenBounded' /\ Spread'
<1> USE DEF IInv, TypeOK, OInv, RowPlace, Places, settingVars, handlerVars, boundVars
<1> DEFINE Kept ==
      /\ ends' = ends /\ Open' \subseteq Open
      /\ \A t : ActiveOn(t)' = ActiveOn(t) /\ ChoseOnly(t)' \subseteq ChoseOnly(t)
<1>0. ASSUME Kept PROVE OpenBounded' /\ Spread'
  BY <1>0, SpreadFrame
<1>1. ASSUME NEW a \in Calls, Authenticate(a) PROVE OpenBounded' /\ Spread'
  <2>1. \A t : ActiveOn(t)' = ActiveOn(t) /\ ChoseOnly(t)' = ChoseOnly(t)
    BY <1>1 DEF Authenticate, Answer, Goto, ActiveOn, ChoseOnly, IsDirect
  <2>2. Open' \subseteq Open \union {a} /\ Cardinality(Open) < MaxOpen
    BY <1>1 DEF Authenticate, Answer, Goto, Open
  <2>3. OpenBounded'
    <3>0. /\ IsFiniteSet(Open \union {a})
          /\ Cardinality(Open \union {a}) = IF a \in Open THEN Cardinality(Open) ELSE Cardinality(Open) + 1
      BY OpenIsFinite, FS_AddElement
    <3>1. IsFiniteSet(Open \union {a}) /\ Cardinality(Open \union {a}) <= Cardinality(Open) + 1
      BY <3>0, OpenIsFinite
    <3>2. IsFiniteSet(Open') /\ Cardinality(Open') <= Cardinality(Open \union {a})
      BY <2>2, <3>1, FS_Subset
    <3> QED BY <2>2, <3>1, <3>2, OpenIsFinite, FS_CardinalityType, RequestsAssumption DEF OpenBounded
  <2>4. ends' = ends
    BY <1>1 DEF Authenticate
  <2>5. Spread'
    BY <2>1, <2>4 DEF Spread, Unnamed, IsDirect
  <2> QED BY <2>3, <2>5
<1>2. ASSUME NEW a \in Calls, CheckKey(a) PROVE OpenBounded' /\ Spread'
  <2>1. Kept
    BY <1>2 DEF CheckKey, Answer, Goto, Seen, SameBody, ActiveOn, ChoseOnly, Open, IsDirect
  <2> QED BY <2>1, <1>0
<1>3. ASSUME NEW a \in Calls, ReadMerchant(a) PROVE OpenBounded' /\ Spread'
  <2>1. Kept
    BY <1>3 DEF ReadMerchant, Goto, ActiveOn, ChoseOnly, Open, IsDirect
  <2> QED BY <2>1, <1>0
<1>4. ASSUME NEW a \in Calls, CheckClient(a) PROVE OpenBounded' /\ Spread'
  <2>1. Kept
    BY <1>4 DEF CheckClient, Answer, Goto, ActiveOn, ChoseOnly, Open, IsDirect
  <2> QED BY <2>1, <1>0
<1>5. ASSUME NEW a \in Calls, ResolveTreasury(a) PROVE OpenBounded' /\ Spread'
  <2>1. Open' = Open /\ ends' = ends
    BY <1>5 DEF ResolveTreasury, Goto, Open
  <2>2. \A t : ActiveOn(t)' = ActiveOn(t)
    <3>1. row[a] = "none"
      BY <1>5 DEF ResolveTreasury
    <3> QED BY <1>5, <3>1 DEF ResolveTreasury, Goto, ActiveOn, IsDirect
  <2>3. \A t : t # Resolved(a) \/ ~ IsDirect(a) => ChoseOnly(t)' = ChoseOnly(t)
    BY <1>5 DEF ResolveTreasury, Goto, ChoseOnly, IsDirect
  <2>4. ASSUME ends' = 0, Unnamed, NEW t \in Treasuries, NEW u \in Treasuries
        PROVE  Cardinality(ActiveOn(t)') + Cardinality(ChoseOnly(t)')
               <= Cardinality(ActiveOn(u)') + MaxOpen
    <3>1. Cardinality(ActiveOn(t)) + Cardinality(ChoseOnly(t)) <= Cardinality(ActiveOn(u)) + MaxOpen
      BY <2>1, <2>4 DEF Spread
    <3>2. CASE t # Resolved(a) \/ ~ IsDirect(a)
      BY <2>2, <2>3, <3>1, <3>2
    <3>3. CASE t = Resolved(a) /\ IsDirect(a)
      <4>1. t = LeastPending
        BY <2>4, <3>3, RequestsAssumption DEF Resolved, Unnamed
      <4>2. Cardinality(ActiveOn(t)) <= Cardinality(ActiveOn(u))
        BY <4>1, LeastPendingIsLeast, LoadIsActive
      <4>3. ChoseOnly(t)' \subseteq Open
        BY <1>5 DEF ResolveTreasury, Goto, ChoseOnly, Open, IsDirect
      <4>4. Cardinality(ChoseOnly(t)') <= MaxOpen /\ Cardinality(ChoseOnly(t)') \in Nat
        BY <4>3, OpenIsFinite, FS_Subset, FS_CardinalityType, RequestsAssumption DEF OpenBounded
      <4> QED BY <2>2, <4>2, <4>4, CountsAreNatural, RequestsAssumption
    <3> QED BY <3>2, <3>3
  <2>5. Spread'
    BY <2>4 DEF Spread, Unnamed, IsDirect
  <2> QED BY <2>1, <2>5 DEF OpenBounded
<1>6. ASSUME NEW a \in Calls, CheckConfiguration(a) PROVE OpenBounded' /\ Spread'
  <2>1. Kept
    BY <1>6 DEF CheckConfiguration, Answer, Goto, ActiveOn, ChoseOnly, Open, IsDirect
  <2> QED BY <2>1, <1>0
<1>7. ASSUME NEW a \in Calls, Create(a) PROVE OpenBounded' /\ Spread'
  <2>1. Open' = Open /\ ends' = ends
    BY <1>7 DEF Create, Goto, Open
  <2>2. \A t : t # treasury[a] \/ ~ IsDirect(a)
              => ActiveOn(t)' = ActiveOn(t) /\ ChoseOnly(t)' = ChoseOnly(t)
    BY <1>7 DEF Create, Goto, ActiveOn, ChoseOnly, IsDirect
  <2>3. ASSUME NEW t, t = treasury[a], IsDirect(a)
        PROVE  /\ Cardinality(ActiveOn(t)') = Cardinality(ActiveOn(t)) + 1
               /\ Cardinality(ChoseOnly(t)') = Cardinality(ChoseOnly(t)) - 1
    <3>1. ActiveOn(t)' = ActiveOn(t) \union {a} /\ a \notin ActiveOn(t)
      BY <1>7, <2>3 DEF Create, Goto, ActiveOn, IsDirect
    <3>2. ChoseOnly(t)' = ChoseOnly(t) \ {a} /\ a \in ChoseOnly(t)
      BY <1>7, <2>3 DEF Create, Goto, ChoseOnly, IsDirect
    <3>3. Cardinality(ActiveOn(t) \union {a}) = Cardinality(ActiveOn(t)) + 1
      BY <3>1, CountsAreNatural, FS_AddElement
    <3>4. Cardinality(ChoseOnly(t) \ {a}) = Cardinality(ChoseOnly(t)) - 1
      BY <3>2, CountsAreNatural, OneElementLess
    <3> QED BY <3>1, <3>2, <3>3, <3>4
  <2>4. ASSUME ends' = 0, Unnamed, NEW t \in Treasuries, NEW u \in Treasuries
        PROVE  Cardinality(ActiveOn(t)') + Cardinality(ChoseOnly(t)')
               <= Cardinality(ActiveOn(u)') + MaxOpen
    <3>1. Cardinality(ActiveOn(t)) + Cardinality(ChoseOnly(t)) <= Cardinality(ActiveOn(u)) + MaxOpen
      BY <2>1, <2>4 DEF Spread
    <3>2. Cardinality(ActiveOn(t)') + Cardinality(ChoseOnly(t)') = Cardinality(ActiveOn(t)) + Cardinality(ChoseOnly(t))
      BY <2>2, <2>3, CountsAreNatural
    <3>3. Cardinality(ActiveOn(u)') = Cardinality(ActiveOn(u)) \/ Cardinality(ActiveOn(u)') = Cardinality(ActiveOn(u)) + 1
      BY <2>2, <2>3
    <3> QED BY <3>1, <3>2, <3>3, CountsAreNatural, RequestsAssumption
  <2>5. Spread'
    BY <2>4 DEF Spread, Unnamed, IsDirect
  <2> QED BY <2>1, <2>5 DEF OpenBounded
<1>8. ASSUME NEW a \in Calls, CheckPreferences(a) PROVE OpenBounded' /\ Spread'
  <2>1. Kept
    BY <1>8 DEF CheckPreferences, Goto, ActiveOn, ChoseOnly, Open, IsDirect
  <2> QED BY <2>1, <1>0
<1>9. ASSUME NEW a \in Calls, Announce(a) PROVE OpenBounded' /\ Spread'
  <2>1. Kept
    BY <1>9 DEF Announce, Goto, ActiveOn, ChoseOnly, Open, IsDirect
  <2> QED BY <2>1, <1>0
<1>10. ASSUME NEW a \in Calls, Store(a) PROVE OpenBounded' /\ Spread'
  <2>1. Kept
    BY <1>10 DEF Store, Answer, Goto, ActiveOn, ChoseOnly, Open, IsDirect
  <2> QED BY <2>1, <1>0
<1>11. ASSUME NEW a \in Calls, EndRequest(a) PROVE OpenBounded' /\ Spread'
  BY <1>11 DEF EndRequest, OpenBounded, Open, Spread
<1>12. ASSUME ChangeSettings PROVE OpenBounded' /\ Spread'
  <2>1. Kept
    BY <1>12 DEF ChangeSettings, ActiveOn, ChoseOnly, Open, IsDirect
  <2> QED BY <2>1, <1>0
<1>13. ASSUME ChangeCallback PROVE OpenBounded' /\ Spread'
  <2>1. Kept
    BY <1>13 DEF ChangeCallback, ActiveOn, ChoseOnly, Open, IsDirect
  <2> QED BY <2>1, <1>0
<1>14. ASSUME ChangePreferences PROVE OpenBounded' /\ Spread'
  <2>1. Kept
    BY <1>14 DEF ChangePreferences, ActiveOn, ChoseOnly, Open, IsDirect
  <2> QED BY <2>1, <1>0
<1>15. ASSUME Abort PROVE OpenBounded' /\ Spread'
  <2>1. Kept
    BY <1>15 DEF Abort, AfterError, ActiveOn, ChoseOnly, Open, IsDirect
  <2> QED BY <2>1, <1>0
<1>16. CASE UNCHANGED vars
  <2>1. Kept
    BY <1>16 DEF vars, ActiveOn, ChoseOnly, Open, IsDirect
  <2> QED BY <2>1, <1>0
<1> QED
  BY <1>1, <1>2, <1>3, <1>4, <1>5, <1>6, <1>7, <1>8, <1>9, <1>10, <1>11, <1>12, <1>13, <1>14, <1>15, <1>16
     DEF Next, Handle

LEMMA InitSpread == Init => OpenBounded /\ Spread
<1> SUFFICES ASSUME Init PROVE OpenBounded /\ Spread
  OBVIOUS
<1>1. Open = {} /\ \A t : ActiveOn(t) = {} /\ ChoseOnly(t) = {}
  BY DEF Init, Open, Places, ActiveOn, ChoseOnly
<1>2. Cardinality(Open) = 0 /\ \A t : Cardinality(ActiveOn(t)) = 0 /\ Cardinality(ChoseOnly(t)) = 0
  BY <1>1, FS_EmptySet
<1> QED BY <1>2, RequestsAssumption DEF OpenBounded, Spread

-------------------------------------------------------------------------------
(***************************************************************************)
(* The theorems.                                                           *)
(***************************************************************************)
LEMMA Invariance == Spec => []IInv
<1>1. IInv /\ [Next]_vars => IInv'
  BY TypeStep, NonceStep, KeyStep DEF IInv
<1> QED BY InitIInv, <1>1, PTL DEF Spec

LEMMA OverlapInvariance == Spec => []OInv
<1>1. IInv /\ OInv /\ [Next]_vars => OInv'
  BY OverlapStep, KeyHeldStep, ClientHeldStep, AnnouncedStep DEF OInv
<1> QED BY InitOInv, <1>1, Invariance, PTL DEF Spec

LEMMA SpreadInvariance == Spec => [](OpenBounded /\ Spread)
<1>1. IInv /\ OInv /\ (OpenBounded /\ Spread) /\ [Next]_vars => (OpenBounded /\ Spread)'
  BY SpreadStep
<1> QED BY InitSpread, <1>1, Invariance, OverlapInvariance, PTL DEF Spec

(* Every variable keeps its type, and every row gets one of the treasury      *)
(* wallets, for any number of calls and wallets.                              *)
THEOREM TypeCorrect == Spec => []TypeOK
<1>1. IInv => TypeOK
  BY DEF IInv
<1> QED BY Invariance, <1>1, PTL

(* insertRequestNonce, one statement with a primary key, admits one call per  *)
(* nonce however the calls overlap.                                           *)
THEOREM NonceAdmitsOneHolds == Spec => []NonceAdmitsOne
<1>1. IInv => NonceAdmitsOne
  BY DEF IInv
<1> QED BY Invariance, <1>1, PTL

(* However calls overlap and fail, those with one key that succeed are given  *)
(* one and the same request, made for their body: the unique index on the key *)
(* turns away every other one.                                                *)
THEOREM KeyHasOneAnswerHolds == Spec => []KeyHasOneAnswer
<1>1. IInv => KeyHasOneAnswer
  <2> SUFFICES ASSUME IInv, NEW c \in Calls, NEW d \in Calls,
                      IsOk(c), IsOk(d), KeyOf[c] = KeyOf[d], KeyOf[c] # NoKey
               PROVE  /\ BodyOf[c] = BodyOf[d]
                      /\ answer[c].request = answer[d].request
                      /\ BodyOf[answer[c].request] = BodyOf[c]
                      /\ row[answer[c].request] # "none"
    BY DEF KeyHasOneAnswer
  <2> DEFINE r == [key |-> KeyOf[c], hash |-> BodyOf[c], request |-> answer[c].request]
             q == [key |-> KeyOf[d], hash |-> BodyOf[d], request |-> answer[d].request]
  <2>1. r \in records /\ q \in records
    BY DEF IInv, AnswersMatch
  <2>2. r = q
    BY <2>1 DEF IInv, RecordsName
  <2>3. BodyOf[r.request] = r.hash /\ row[r.request] # "none"
    BY <2>1 DEF IInv, RecordsName
  <2> QED BY <2>2, <2>3
<1> QED BY Invariance, <1>1, PTL

(* assertIdempotency and storeIdempotency: without a crash, only calls that   *)
(* overlap make two requests for one key, for any number of calls and keys.   *)
THEOREM OneRequestPerKeyHolds == Spec => []OneRequestPerKey
<1>1. OInv => OneRequestPerKey
  BY DEF OInv, KeyHeld, OneRequestPerKey
<1> QED BY OverlapInvariance, <1>1, PTL

(* assertClientCanOpenDeposit: a client has two active requests only when     *)
(* their calls overlapped or the owner allowed it, crashes or not.            *)
THEOREM OneActivePerClientHolds == Spec => []OneActivePerClient
<1>1. OInv => OneActivePerClient
  BY DEF OInv, ClientHeld, OneActivePerClient
<1> QED BY OverlapInvariance, <1>1, PTL

(* createDepositAddress, enqueueMerchantEvent and storeIdempotency, in their  *)
(* order: however many calls fail between them, are repeated or find other    *)
(* settings, no answer is ahead of its event; and but for types switched off, *)
(* a URL without a configuration is the one way to have no event at all.      *)
THEOREM AnsweredIsAnnouncedHolds == Spec => []AnsweredIsAnnounced
<1>1. OInv /\ TypeOK => AnsweredIsAnnounced
  <2> SUFFICES ASSUME AnnouncedOK, TypeOK PROVE AnsweredIsAnnounced
    BY DEF OInv
  <2> QED BY DEF AnnouncedOK, Heard, AnsweredIsAnnounced, TypeOK
<1>2. IInv => TypeOK
  BY DEF IInv
<1> QED BY OverlapInvariance, Invariance, <1>1, <1>2, PTL

(* selectLeastPendingTreasury counts before it inserts, with no lock between:  *)
(* the wallets' loads still never drift further apart than the calls that can  *)
(* be in progress together, for any number of requests and wallets.            *)
THEOREM SpreadIsBoundedHolds == Spec => []SpreadIsBounded
<1>1. Spread => SpreadIsBounded
  <2> SUFFICES ASSUME Spread, ends = 0, Unnamed, NEW t \in Treasuries, NEW u \in Treasuries
               PROVE  Load(t) - Load(u) <= MaxOpen
    BY DEF SpreadIsBounded, Unnamed
  <2>1. Cardinality(ActiveOn(t)) + Cardinality(ChoseOnly(t)) <= Cardinality(ActiveOn(u)) + MaxOpen
    BY DEF Spread
  <2> QED BY <2>1, CountsAreNatural, LoadIsActive, RequestsAssumption
<1> QED BY SpreadInvariance, <1>1, PTL
===============================================================================
