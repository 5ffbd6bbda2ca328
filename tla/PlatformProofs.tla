--------------------------- MODULE PlatformProofs ---------------------------
(***************************************************************************)
(* Proofs about what surrounds a session: Accounts.tla, Recordings.tla,    *)
(* Backups.tla and Publication.tla.  Each is proved of its own component,  *)
(* from its initial states and its steps, and then of MCPlatform's whole,  *)
(* in which the part that runs moves and the others stand.                 *)
(***************************************************************************)
EXTENDS MCPlatform, WellFoundedInduction, FiniteSetTheorems, TLAPS

-----------------------------------------------------------------------------
(* Sets of at most one element, least elements *)

\* A set with no two different elements has at most one (the calls of a code, the active keys of
\* a path, the sessions of a recording).
LEMMA AtMostOne ==
  ASSUME NEW S, \A x, y \in S : x = y
  PROVE  IsFiniteSet(S) /\ Cardinality(S) <= 1
<1>1. CASE S = {}
  BY <1>1, FS_EmptySet
<1>2. CASE S # {}
  <2>1. PICK x : S = {x}
    BY <1>2
  <2>2. IsFiniteSet({x}) /\ Cardinality({x}) = 1
    BY FS_Singleton
  <2>3. IsFiniteSet(S) /\ Cardinality(S) = 1
    BY <2>1, <2>2
  <2> QED BY <2>3
<1> QED BY <1>1, <1>2

\* A set of numbers that is not empty has a least one (the first free folder).
LEMMA LeastNumber ==
  ASSUME NEW S \in SUBSET Nat, S # {}
  PROVE  Min(S) \in S
<1> DEFINE Less == {ss \in Nat \X Nat : ss[1] < ss[2]}
<1>1. IsWellFoundedOn(Less, Nat)
  BY NatLessThanWellFounded, Zenon DEF OpToRel
<1>2. PICK x \in S : \A y \in S : ~(<<y, x>> \in Less)
  BY <1>1, WFMin
<1>3. ASSUME NEW y \in S PROVE x <= y
  <2>1. y \in Nat /\ x \in Nat
    OBVIOUS
  <2>2. ~(<<y, x>> \in Less)
    BY <1>2
  <2>3. ASSUME y < x PROVE <<y, x>> \in Less
    BY <2>1, <2>3
  <2> QED BY <2>1, <2>2, <2>3
<1>4. \E z \in S : \A y \in S : z =< y
  BY <1>3
<1>5. Min(S) = CHOOSE z \in S : \A y \in S : z =< y
  BY DEF Min
<1> QED BY <1>4, <1>5

-----------------------------------------------------------------------------
(* Accounts: the invariant *)

UserRows == [there : BOOLEAN, sub : People \cup {"none", "gone"}, folder : Nat, rows : BOOLEAN]
FlowRows == [pc : {"idle", "away", "exchange", "commit", "issue", "over"}, who : People \cup {"none"},
             client : {"web", "android"}, user : AccountIds, claims : BOOLEAN,
             make : BOOLEAN, folder : Nat]
LoginRows == [state : {"none", "fresh", "half", "expired", "out"}, user : AccountIds]
CodeRows == [state : {"none", "fresh", "used", "expired"}, user : AccountIds]
DeviceRows == [state : {"none", "fresh", "revoked"}, user : AccountIds]
CallRows == [pc : {"idle", "device", "slide", "over"}, flow : Flows \cup {0}, read : LoginRows \cup CodeRows]
TicketRows == [state : {"none", "fresh", "used", "expired"}, uses : Nat]

AccountRows ==
  /\ users \in [AccountIds -> UserRows] /\ flows \in [Flows -> FlowRows]
  /\ logins \in [Flows -> LoginRows] /\ codes \in [Flows -> CodeRows]
  /\ devices \in [Calls -> DeviceRows] /\ calls \in [Calls -> CallRows]
  /\ tickets \in [Flows -> TicketRows] /\ pathKeys \in [1..MaxKeys -> {"none", "active", "revoked"}]
  /\ counted \in [AccountEvents -> Nat]

\* The owner's account is always there, in the vault's own folder.
OwnerThere == users[Owner].there /\ users[Owner].folder = 0
\* No two accounts share a person or a folder.
UsersApart ==
  \A u, v \in AccountIds : u # v /\ users[u].there /\ users[v].there =>
    (users[u].sub = "none" \/ users[u].sub # users[v].sub) /\ users[u].folder # users[v].folder
\* Every credential, used or not, points at an account that is there: a claim moves them all.
CredsPoint ==
  /\ \A f \in Flows : users[logins[f].user].there
  /\ \A c \in Calls : users[devices[c].user].there
\* A flow issues its credential as its last step.
IssuedLast == \A f \in Flows : logins[f].state # "none" \/ codes[f].state # "none" => flows[f].pc = "over"
\* A call that makes or made a device of a code has used the code up, and no other call has.
Redeeming(c) == calls[c].pc \in {"device", "over"} /\ calls[c].flow \in Flows
CodesOnce ==
  /\ \A c \in Calls : Redeeming(c) => codes[calls[c].flow].state = "used"
  /\ \A c, d \in Calls : Redeeming(c) /\ Redeeming(d) /\ calls[c].flow = calls[d].flow => c = d
\* A device is the last thing a call makes.
DevicesLast == \A c \in Calls : devices[c].state # "none" => calls[c].pc = "over"
TicketsOnce ==
  \A f \in Flows : tickets[f].uses <= 1 /\ (tickets[f].state \in {"none", "fresh"} => tickets[f].uses = 0)
KeysOnce == \A j, k \in DOMAIN pathKeys : pathKeys[j] = "active" /\ pathKeys[k] = "active" => j = k

AccountInv ==
  /\ AccountRows /\ OwnerThere /\ UsersApart /\ CredsPoint /\ IssuedLast /\ CodesOnce /\ DevicesLast
  /\ TicketsOnce /\ KeysOnce

-----------------------------------------------------------------------------
(* Accounts: the proof *)

\* The invariant holds where everything begins.
LEMMA AccountInitInv == AccountInit => AccountInv
<1> SUFFICES ASSUME AccountInit PROVE AccountInv
  OBVIOUS
<1> USE AccountAssumption, NoFlowZero
<1>0. 0 \in AccountIds
  BY DEF AccountIds
<1>1. AccountRows
  BY <1>0 DEF AccountInit, AccountRows, UserRows, FlowRows, LoginRows, CodeRows, DeviceRows, CallRows, TicketRows,
     NoUser, NoFlow, NoCred, NoCall, NoTicket, Owner
<1>2. OwnerThere /\ UsersApart /\ CredsPoint
  BY <1>0 DEF AccountInit, OwnerThere, UsersApart, CredsPoint, NoUser, NoCred, Owner
<1>3. IssuedLast /\ CodesOnce /\ DevicesLast /\ TicketsOnce /\ KeysOnce
  BY DEF AccountInit, IssuedLast, CodesOnce, Redeeming, DevicesLast, TicketsOnce, KeysOnce, NoCred, NoCall, NoTicket
<1> QED BY <1>1, <1>2, <1>3 DEF AccountInv

\* What the invariant says is what is meant to happen once.
LEMMA AccountInvSays == AccountInv => OnceOnly
<1> SUFFICES ASSUME AccountInv PROVE OnceOnly
  OBVIOUS
<1> USE DEF AccountInv
<1>1. AccountTypeOK
  BY DEF AccountRows, AccountTypeOK, UserRows, FlowRows, LoginRows, CodeRows, DeviceRows, CallRows, TicketRows
<1>2. ASSUME NEW f \in Flows
      PROVE  Cardinality({c \in Calls : calls[c].flow = f /\ calls[c].pc \in {"device", "over"}}) <= 1
  <2> DEFINE S == {c \in Calls : calls[c].flow = f /\ calls[c].pc \in {"device", "over"}}
  <2>1. \A c, d \in S : c = d
    BY DEF CodesOnce, Redeeming
  <2> QED BY <2>1, AtMostOne
<1>3. Cardinality(Active) <= 1
  <2>1. \A j, k \in Active : j = k
    BY DEF KeysOnce, Active
  <2> QED BY <2>1, AtMostOne
<1> QED BY <1>1, <1>2, <1>3 DEF OnceOnly, UsersApart, TicketsOnce, CredsPoint
\* There is a free folder: there are as many names as accounts, and the owner's folder is none of
\* them (users.py, free_folder).
LEMMA FolderFree ==
  ASSUME AccountInv
  PROVE  FreeFolder \in Nat
<1> DEFINE Names == 1..(MaxUsers + 1)
           Taken == 1..MaxUsers
           Used(n) == {u \in AccountIds : users[u].there /\ users[u].folder = n}
           S == {n \in Names : \A u \in AccountIds : users[u].there => users[u].folder # n}
           f == [n \in Names |-> CHOOSE u \in Used(n) : TRUE]
<1>1. MaxUsers \in Nat
  BY AccountAssumption
<1>2. S # {}
  <2> SUFFICES ASSUME S = {} PROVE FALSE
    OBVIOUS
  <2>1. ASSUME NEW n \in Names PROVE f[n] \in Taken /\ users[f[n]].folder = n
    <3>1. Used(n) # {}
      OBVIOUS
    <3>2. f[n] \in Used(n)
      BY <3>1
    <3>3. f[n] \in AccountIds /\ users[f[n]].folder = n
      BY <3>2
    <3>4. f[n] # 0
      BY <3>3, <1>1 DEF AccountInv, OwnerThere, Owner
    <3> QED BY <3>3, <3>4, <1>1 DEF AccountIds
  <2>2. f \in [Names -> Taken]
    BY <2>1
  <2>3. f \in Injection(Names, Taken)
    <3> HIDE DEF f, Names, Taken
    <3>1. \A m, n \in Names : f[m] = f[n] => m = n
      BY <2>1
    <3> QED BY <3>1, <2>2 DEF Injection, IsInjective
  <2>4. IsFiniteSet(Taken) /\ Cardinality(Taken) = MaxUsers
    BY <1>1, FS_Interval
  <2>5. Cardinality(Names) = MaxUsers + 1
    BY <1>1, FS_Interval
  <2>6. Cardinality(Names) <= Cardinality(Taken)
    <3> HIDE DEF f, Names, Taken
    <3> QED BY <2>3, <2>4, FS_Injection
  <2> QED BY <2>4, <2>5, <2>6, <1>1
<1>3. S \in SUBSET Nat
  BY <1>1
<1>4. FreeFolder = Min(S)
  BY DEF FreeFolder
<1> HIDE DEF S
<1>5. Min(S) \in S
  BY <1>2, <1>3, LeastNumber
<1> QED BY <1>3, <1>4, <1>5

\* The events are counted, one at a time.
LEMMA EventCounted ==
  ASSUME NEW e \in AccountEvents, counted \in [AccountEvents -> Nat], Counts(e)
  PROVE  /\ counted' \in [AccountEvents -> Nat] /\ counted' # counted
         /\ \A g \in AccountEvents : g # e => counted'[g] = counted[g]
<1>1. counted'[e] = counted[e] + 1 /\ counted[e] \in Nat
  BY DEF Counts
<1> QED BY <1>1 DEF Counts

\* What a step counts is more than before.
LEMMA CountRises ==
  ASSUME NEW e \in AccountEvents, counted \in [AccountEvents -> Nat], Counts(e)
  PROVE  counted'[e] > counted[e]
<1>1. counted'[e] = counted[e] + 1 /\ counted[e] \in Nat
  BY DEF Counts
<1> QED BY <1>1

\* A sign-in that begins, fails, comes back from the provider or reads the accounts moves its own
\* flow only.
LEMMA SigningIn ==
  ASSUME AccountInv, NEW f \in Flows, Login(f) \/ SignInFails(f) \/ Callback(f) \/ SignInRead(f)
  PROVE  AccountInv'
<1> USE DEF AccountInv
<1>1. /\ counted' \in [AccountEvents -> Nat]
      /\ UNCHANGED <<users, logins, codes, devices, calls, tickets, pathKeys>>
  BY EventCounted DEF Login, SignInFails, Callback, SignInRead, AccountEvents, AccountRows
<1>2. PICK row \in FlowRows : flows' = [flows EXCEPT ![f] = row] /\ flows[f].pc # "over"
  <2>1. flows[f] \in FlowRows
    BY DEF AccountRows
  <2>2. 0 \in AccountIds
    BY AccountAssumption DEF AccountIds
  <2>3. CASE Login(f)
    <3>1. PICK who \in People, client \in {"web", "android"} :
            flows' = [flows EXCEPT ![f] = [NoFlow EXCEPT !.pc = "away", !.who = who, !.client = client]]
      BY <2>3 DEF Login
    <3>2. [NoFlow EXCEPT !.pc = "away", !.who = who, !.client = client] \in FlowRows
      BY <2>2 DEF NoFlow, FlowRows, Owner
    <3> QED BY <3>1, <3>2, <2>3 DEF Login
  <2>4. CASE SignInFails(f)
    <3>1. [NoFlow EXCEPT !.pc = "over"] \in FlowRows
      BY <2>2 DEF NoFlow, FlowRows, Owner
    <3> QED BY <3>1, <2>4 DEF SignInFails
  <2>5. CASE Callback(f)
    <3>1. [flows[f] EXCEPT !.pc = "exchange"] \in FlowRows
      BY <2>1 DEF FlowRows
    <3>2. flows' = [flows EXCEPT ![f] = [flows[f] EXCEPT !.pc = "exchange"]]
      BY <2>5 DEF Callback
    <3> QED BY <3>1, <3>2, <2>5 DEF Callback
  <2>6. CASE SignInRead(f)
    <3>1. With(flows[f].who) # {} => (CHOOSE u \in With(flows[f].who) : TRUE) \in AccountIds
      BY DEF With
    <3>2. \A u \in AccountIds : /\ [flows[f] EXCEPT !.pc = "commit", !.user = u] \in FlowRows
                               /\ [flows[f] EXCEPT !.pc = "commit", !.user = u, !.claims = TRUE] \in FlowRows
      BY <2>1 DEF FlowRows
    <3>3. [flows[f] EXCEPT !.pc = "commit", !.make = TRUE, !.folder = FreeFolder] \in FlowRows
      BY <2>1, FolderFree DEF FlowRows
    <3>4. \E row \in FlowRows : flows' = [flows EXCEPT ![f] = row]
      BY <2>6, <2>2, <3>1, <3>2, <3>3 DEF SignInRead, Owner
    <3> QED BY <3>4, <2>6 DEF SignInRead
  <2> QED BY <2>3, <2>4, <2>5, <2>6
<1>3. AccountRows'
  BY <1>1, <1>2 DEF AccountRows
<1>4. IssuedLast'
  BY <1>1, <1>2 DEF IssuedLast, AccountRows
<1> QED BY <1>1, <1>3, <1>4
     DEF OwnerThere, UsersApart, CredsPoint, CodesOnce, Redeeming, DevicesLast, TicketsOnce, KeysOnce

\* The commit makes or binds one account, if no unique column refuses it.
LEMMA SigningUp ==
  ASSUME AccountInv, NEW f \in Flows, SignInCommit(f)
  PROVE  AccountInv'
<1> USE DEF AccountInv
<1>1. flows[f] \in FlowRows
  BY DEF AccountRows
<1>2. CASE Clashes(f)
  <2>1. flows' = [flows EXCEPT ![f] = [NoFlow EXCEPT !.pc = "over"]] /\ UNCHANGED users
    BY <1>2 DEF SignInCommit
  <2>2. [NoFlow EXCEPT !.pc = "over"] \in FlowRows
    <3>1. 0 \in AccountIds
      BY AccountAssumption DEF AccountIds
    <3> QED BY <3>1 DEF NoFlow, FlowRows, Owner
  <2>3. AccountRows' /\ IssuedLast'
    BY <2>1, <2>2 DEF AccountRows, IssuedLast, SignInCommit
  <2> QED BY <2>1, <2>3
       DEF SignInCommit, OwnerThere, UsersApart, CredsPoint, CodesOnce, Redeeming, DevicesLast, TicketsOnce, KeysOnce
<1>3. CASE ~Clashes(f)
  <2> DEFINE rec(u) == IF flows[f].make THEN Made(f, u)
                       ELSE IF flows[f].claims THEN [users[u] EXCEPT !.sub = flows[f].who]
                       ELSE users[u]
  <2>1. PICK u \in AccountIds : /\ users' = [users EXCEPT ![u] = rec(u)]
                                /\ flows' = [flows EXCEPT ![f].pc = "issue", ![f].user = u]
                                /\ IF flows[f].make THEN users[u] = NoUser ELSE u = flows[f].user
    <3>1. CASE flows[f].make
      <4>1. FreeAccount # {}
        BY <1>3, <3>1 DEF SignInCommit
      <4>2. (CHOOSE v \in FreeAccount : TRUE) \in FreeAccount
        BY <4>1
      <4> QED BY <1>3, <3>1, <4>2 DEF SignInCommit, FreeAccount
    <3>2. CASE ~flows[f].make
      BY <1>3, <1>1, <3>2 DEF SignInCommit, FlowRows
    <3> QED BY <3>1, <3>2
  <2>2. /\ rec(u) \in UserRows /\ rec(u).there
        /\ rec(u).sub = IF flows[f].make \/ flows[f].claims THEN flows[f].who ELSE users[u].sub
        /\ rec(u).folder = IF flows[f].make THEN flows[f].folder ELSE users[u].folder
    <3>1. users[u] \in UserRows /\ flows[f] \in FlowRows
      BY <1>1, <2>1 DEF AccountRows
    <3>2. CASE flows[f].make
      BY <3>1, <3>2 DEF Made, UserRows, FlowRows
    <3>3. CASE ~flows[f].make
      <4>1. users[u].there
        BY <1>1, <1>3, <2>1, <3>3 DEF Clashes
      <4> QED BY <3>1, <3>3, <4>1 DEF UserRows, FlowRows
    <3> QED BY <3>2, <3>3
  <2>3. \A v \in AccountIds : v # u /\ users[v].there =>
          /\ flows[f].make \/ flows[f].claims => users[v].sub # flows[f].who
          /\ (flows[f].make => users[v].folder # flows[f].folder)
    BY <1>3, <2>1 DEF Clashes
  <2>4. ~flows[f].make => users[u].there
    BY <1>3, <2>1 DEF Clashes
  <2>5. flows' = [flows EXCEPT ![f] = [flows[f] EXCEPT !.pc = "issue", !.user = u]]
    BY <2>1, <1>1 DEF FlowRows, AccountRows
  <2>6. [flows[f] EXCEPT !.pc = "issue", !.user = u] \in FlowRows
    BY <1>1 DEF FlowRows
  <2>7. flows[f].make => u # Owner
    BY <2>1 DEF OwnerThere, NoUser
  <2> HIDE DEF rec
  <2>8. AccountRows'
    BY <2>1, <2>2, <2>5, <2>6 DEF AccountRows, SignInCommit
  <2>9. \A v \in AccountIds : users'[v] = IF v = u THEN rec(u) ELSE users[v]
    BY <2>1 DEF AccountRows
  <2>10. OwnerThere'
    BY <2>9, <2>2, <2>7, AccountAssumption DEF OwnerThere, Owner, AccountIds
  <2>11. UsersApart'
    BY <2>9, <2>2, <2>3, <2>4 DEF UsersApart
  <2>12. CredsPoint'
    BY <2>9, <2>2 DEF CredsPoint, SignInCommit, AccountRows, LoginRows, DeviceRows
  <2>13. IssuedLast'
    BY <2>5 DEF SignInCommit, IssuedLast, AccountRows
  <2> QED BY <2>8, <2>10, <2>11, <2>12, <2>13
       DEF SignInCommit, CodesOnce, Redeeming, DevicesLast, TicketsOnce, KeysOnce
<1> QED BY <1>2, <1>3
\* What is issued is a new row for an account that is there.
LEMMA Issuing ==
  ASSUME AccountInv, NEW f \in Flows, Issue(f)
  PROVE  AccountInv'
<1> USE DEF AccountInv
<1> DEFINE cred == [state |-> "fresh", user |-> flows[f].user]
<1>1. /\ flows[f] \in FlowRows /\ flows[f].pc = "issue"
      /\ flows' = [flows EXCEPT ![f] = [flows[f] EXCEPT !.pc = "over"]]
  BY DEF AccountRows, Issue, FlowRows
<1>2. [flows[f] EXCEPT !.pc = "over"] \in FlowRows /\ cred \in LoginRows /\ cred \in CodeRows
  BY <1>1 DEF FlowRows, LoginRows, CodeRows
<1>3. \/ UNCHANGED <<logins, codes>>
      \/ users[cred.user].there /\ logins' = [logins EXCEPT ![f] = cred] /\ UNCHANGED codes
      \/ codes' = [codes EXCEPT ![f] = cred] /\ UNCHANGED logins
  BY DEF Issue
<1>4. UNCHANGED <<users, devices, calls, tickets, pathKeys, counted>>
  BY DEF Issue
<1>5. codes[f].state = "none"
  BY <1>1 DEF IssuedLast
<1>6. \A c \in Calls : Redeeming(c) => calls[c].flow # f
  BY <1>5 DEF CodesOnce
<1> HIDE DEF cred
<1>7. AccountRows'
  BY <1>1, <1>2, <1>3, <1>4 DEF AccountRows
<1>8. CredsPoint'
  BY <1>3, <1>4 DEF CredsPoint, AccountRows
<1>9. IssuedLast'
  BY <1>1, <1>3, <1>4 DEF IssuedLast, AccountRows
<1>10. CodesOnce'
  BY <1>3, <1>4, <1>6 DEF CodesOnce, Redeeming, AccountRows
<1> QED BY <1>4, <1>7, <1>8, <1>9, <1>10 DEF OwnerThere, UsersApart, DevicesLast, TicketsOnce, KeysOnce

\* A code is used up by the call that redeems it, right or wrong.
LEMMA Redemption ==
  ASSUME AccountInv, NEW f \in Flows, NEW c \in Calls, Redeem(c, f)
  PROVE  AccountInv'
<1> USE DEF AccountInv
<1>1. counted' \in [AccountEvents -> Nat] /\ UNCHANGED <<users, flows, logins, devices, tickets, pathKeys>>
  BY EventCounted DEF Redeem, AccountEvents, AccountRows
<1>2. /\ codes[f] \in CodeRows /\ codes[f].state = "fresh"
      /\ codes' = [codes EXCEPT ![f] = [codes[f] EXCEPT !.state = "used"]]
  BY DEF Redeem, AccountRows, CodeRows
<1>3. [codes[f] EXCEPT !.state = "used"] \in CodeRows
  BY <1>2 DEF CodeRows
<1>4. PICK row \in CallRows : /\ calls' = [calls EXCEPT ![c] = row]
                              /\ row.flow \in {0, f} /\ row.pc \in {"device", "over"}
  <2>1. 0 \in AccountIds
    BY AccountAssumption DEF AccountIds
  <2>2. [pc |-> "device", flow |-> f, read |-> codes[f]] \in CallRows
    BY <1>2 DEF CallRows
  <2>3. [NoCall EXCEPT !.pc = "over"] \in CallRows
    BY <2>1 DEF CallRows, NoCall, NoCred, LoginRows, Owner
  <2>4. \/ calls' = [calls EXCEPT ![c] = [pc |-> "device", flow |-> f, read |-> codes[f]]]
        \/ calls' = [calls EXCEPT ![c] = [NoCall EXCEPT !.pc = "over"]]
    BY DEF Redeem
  <2> QED BY <2>2, <2>3, <2>4 DEF NoCall
<1>5. calls[c].pc = "idle"
  BY DEF Redeem
<1>6. AccountRows'
  BY <1>1, <1>2, <1>3, <1>4 DEF AccountRows
<1>7. IssuedLast'
  BY <1>1, <1>2 DEF IssuedLast, AccountRows
<1>8. \A d \in Calls : Redeeming(d) => calls[d].flow # f
  BY <1>2 DEF CodesOnce
<1>9. \A d \in Calls : d # c => calls'[d] = calls[d]
  BY <1>4 DEF AccountRows
<1>10. calls'[c] = row
  BY <1>4 DEF AccountRows
<1>11. CodesOnce'
  BY <1>2, <1>4, <1>8, <1>9, <1>10, NoFlowZero DEF CodesOnce, Redeeming, AccountRows
<1>12. DevicesLast'
  BY <1>1, <1>5, <1>9 DEF DevicesLast
<1> QED BY <1>1, <1>6, <1>7, <1>11, <1>12 DEF OwnerThere, UsersApart, CredsPoint, TicketsOnce, KeysOnce

\* A device is made by a call that has none yet, for an account that is there.
LEMMA DeviceMade ==
  ASSUME AccountInv, NEW c \in Calls, CreateDevice(c) \/ (\E f \in Flows : AddDevice(c, f))
  PROVE  AccountInv'
<1> USE DEF AccountInv
<1>1. calls[c] \in CallRows /\ calls[c].pc \in {"idle", "device"}
  BY DEF CreateDevice, AddDevice, AccountRows
<1>2. counted' \in [AccountEvents -> Nat] /\ UNCHANGED <<flows, logins, codes, tickets, pathKeys>>
  BY EventCounted DEF CreateDevice, AddDevice, AccountEvents, AccountRows
<1>3. PICK row \in CallRows : /\ calls' = [calls EXCEPT ![c] = row] /\ row.pc = "over"
                              /\ row.flow = 0 \/ (row.flow = calls[c].flow /\ calls[c].pc = "device")
  <2>1. 0 \in AccountIds
    BY AccountAssumption DEF AccountIds
  <2>2. [calls[c] EXCEPT !.pc = "over"] \in CallRows
    BY <1>1 DEF CallRows
  <2>3. [pc |-> "over", flow |-> 0, read |-> NoCred] \in CallRows
    BY <2>1 DEF CallRows, NoCred, LoginRows, Owner
  <2>4. \/ calls' = [calls EXCEPT ![c] = [calls[c] EXCEPT !.pc = "over"]] /\ calls[c].pc = "device"
        \/ calls' = [calls EXCEPT ![c] = [pc |-> "over", flow |-> 0, read |-> NoCred]]
    BY DEF CreateDevice, AddDevice
  <2> QED BY <1>1, <2>2, <2>3, <2>4 DEF CallRows
<1>4. \/ UNCHANGED devices
      \/ \E u \in AccountIds : users[u].there /\ devices' = [devices EXCEPT ![c] = [state |-> "fresh", user |-> u]]
  <2>1. CASE CreateDevice(c)
    BY <1>1, <2>1 DEF CreateDevice, CallRows, LoginRows, CodeRows
  <2>2. ASSUME NEW f \in Flows, AddDevice(c, f) PROVE \E u \in AccountIds :
          users[u].there /\ devices' = [devices EXCEPT ![c] = [state |-> "fresh", user |-> u]]
    <3>1. logins[f].user \in AccountIds /\ users[logins[f].user].there
      BY DEF AccountRows, LoginRows, CredsPoint
    <3> QED BY <2>2, <3>1 DEF AddDevice
  <2> QED BY <2>1, <2>2
<1>5. \A u \in AccountIds : users'[u] \in UserRows /\ users'[u].there = users[u].there
                            /\ users'[u].sub = users[u].sub /\ users'[u].folder = users[u].folder
  <2>1. CASE UNCHANGED users
    BY <2>1 DEF AccountRows
  <2>2. ASSUME NEW v \in AccountIds, NEW r \in BOOLEAN, users' = [users EXCEPT ![v].rows = @ \/ r]
        PROVE  \A u \in AccountIds : users'[u] \in UserRows /\ users'[u].there = users[u].there
                            /\ users'[u].sub = users[u].sub /\ users'[u].folder = users[u].folder
    <3>1. \A u \in AccountIds : users'[u] = IF u = v THEN [users[u] EXCEPT !.rows = @ \/ r] ELSE users[u]
      BY <2>2 DEF AccountRows
    <3>2. \A u \in AccountIds : users[u] \in UserRows
      BY DEF AccountRows
    <3>3. \A u \in AccountIds : [users[u] EXCEPT !.rows = @ \/ r] \in UserRows
      BY <3>2 DEF UserRows
    <3>4. \A u \in AccountIds : LET next == [users[u] EXCEPT !.rows = @ \/ r] IN
            next.there = users[u].there /\ next.sub = users[u].sub /\ next.folder = users[u].folder
      BY <3>2 DEF UserRows
    <3> QED BY <3>1, <3>2, <3>3, <3>4
  <2>3. UNCHANGED users \/ \E v \in AccountIds, r \in BOOLEAN : users' = [users EXCEPT ![v].rows = @ \/ r]
    BY DEF CreateDevice, AddDevice, AccountRows, LoginRows
  <2> QED BY <2>1, <2>2, <2>3
<1>6. users' \in [AccountIds -> UserRows]
  <2>1. users' = [u \in AccountIds |-> users'[u]]
    BY DEF CreateDevice, AddDevice, AccountRows
  <2> QED BY <1>5, <2>1
<1>7. devices' \in [Calls -> DeviceRows] /\ \A d \in Calls : d # c => devices'[d] = devices[d]
  BY <1>4 DEF AccountRows, DeviceRows
<1>8. AccountRows'
  BY <1>2, <1>3, <1>6, <1>7 DEF AccountRows
<1>9. OwnerThere' /\ UsersApart'
  <2>1. Owner \in AccountIds
    BY AccountAssumption DEF AccountIds, Owner
  <2> QED BY <1>5, <2>1 DEF OwnerThere, UsersApart
<1>10. CredsPoint'
  <2>1. \A d \in Calls : users[devices'[d].user].there /\ devices'[d].user \in AccountIds
    BY <1>4, <1>7 DEF CredsPoint, AccountRows, DeviceRows
  <2> QED BY <1>2, <1>5, <2>1 DEF CredsPoint, AccountRows, LoginRows
<1>11. calls'[c] = row /\ \A d \in Calls : d # c => calls'[d] = calls[d]
  BY <1>3 DEF AccountRows
<1>12. CodesOnce'
  BY <1>2, <1>3, <1>11, NoFlowZero DEF CodesOnce, Redeeming, AccountRows
<1>13. DevicesLast'
  BY <1>3, <1>7, <1>11 DEF DevicesLast
<1> QED BY <1>2, <1>8, <1>9, <1>10, <1>12, <1>13 DEF IssuedLast, TicketsOnce, KeysOnce

\* Cookies are read and renewed, and what was issued ends: no row but a call's takes another user.
LEMMA CredentialUsed ==
  ASSUME AccountInv,
         \/ \E c \in Calls : RevokeDevice(c) \/ Slide(c) \/ \E f \in Flows : ReadCookie(c, f)
         \/ \E f \in Flows : Logout(f) \/ Expire(f) \/ IssueTicket(f) \/ RedeemTicket(f)
  PROVE  AccountInv'
<1> USE DEF AccountInv
<1>1. counted' \in [AccountEvents -> Nat] /\ UNCHANGED <<users, flows, pathKeys>>
  BY EventCounted DEF RevokeDevice, Slide, ReadCookie, Logout, Expire, IssueTicket, RedeemTicket, AccountEvents, AccountRows
<1>2. /\ logins' \in [Flows -> LoginRows]
      /\ \A f \in Flows : logins'[f].user = logins[f].user /\ (logins[f].state = "none" => logins'[f].state = "none")
  <2> DEFINE Became(g, st) == [logins[g] EXCEPT !.state = st]
  <2>1. \A f \in Flows : logins[f] \in LoginRows
    BY DEF AccountRows
  <2>2. \A g \in Flows, st \in {"fresh", "half", "expired", "out"} :
          Became(g, st) \in LoginRows /\ Became(g, st).user = logins[g].user
    BY <2>1 DEF LoginRows
  <2>3. UNCHANGED logins \/ \E g \in Flows, st \in {"fresh", "half", "expired", "out"} :
                              logins[g].state # "none" /\ logins' = [logins EXCEPT ![g] = Became(g, st)]
    <3>1. ASSUME NEW c \in Calls, Slide(c), calls[c].flow \in Flows
          PROVE  UNCHANGED logins \/ \E g \in Flows, st \in {"fresh", "half", "expired", "out"} :
                              logins[g].state # "none" /\ logins' = [logins EXCEPT ![g] = Became(g, st)]
      BY <3>1 DEF Slide
    <3>2. ASSUME NEW c \in Calls, Slide(c), calls[c].flow \notin Flows PROVE UNCHANGED logins
      BY <3>2 DEF Slide, AccountRows
    <3>3. ASSUME NEW g \in Flows, Logout(g) \/ Expire(g) \/ IssueTicket(g) \/ RedeemTicket(g)
          PROVE  UNCHANGED logins \/ \E st \in {"fresh", "half", "expired", "out"} :
                              logins[g].state # "none" /\ logins' = [logins EXCEPT ![g] = Became(g, st)]
      BY <3>3 DEF Logout, Expire, IssueTicket, RedeemTicket
    <3> QED BY <3>1, <3>2, <3>3 DEF RevokeDevice, ReadCookie
  <2> HIDE DEF Became
  <2>4. CASE UNCHANGED logins
    BY <2>4 DEF AccountRows
  <2>5. ASSUME NEW g \in Flows, NEW st \in {"fresh", "half", "expired", "out"},
               logins[g].state # "none" /\ logins' = [logins EXCEPT ![g] = Became(g, st)]
        PROVE  /\ logins' \in [Flows -> LoginRows]
               /\ \A f \in Flows : logins'[f].user = logins[f].user /\ (logins[f].state = "none" => logins'[f].state = "none")
    <3>1. PICK y : y = Became(g, st)
      OBVIOUS
    <3>2. y \in LoginRows /\ y.user = logins[g].user /\ logins \in [Flows -> LoginRows]
      BY <2>2, <3>1 DEF AccountRows
    <3>3. logins' = [logins EXCEPT ![g] = y] /\ logins[g].state # "none"
      BY <2>5, <3>1
    <3> QED BY ONLY <3>2, <3>3
  <2> QED BY <2>3, <2>4, <2>5
<1>3. /\ codes' \in [Flows -> CodeRows]
      /\ \A f \in Flows : (codes[f].state = "none" => codes'[f].state = "none")
                          /\ (codes[f].state = "used" => codes'[f].state = "used")
  <2>1. UNCHANGED codes \/ \E g \in Flows :
          codes[g].state = "fresh" /\ codes' = [codes EXCEPT ![g] = [codes[g] EXCEPT !.state = "expired"]]
    BY DEF RevokeDevice, Slide, ReadCookie, Logout, Expire, IssueTicket, RedeemTicket
  <2>2. \A g \in Flows : [codes[g] EXCEPT !.state = "expired"] \in CodeRows
    BY DEF CodeRows, AccountRows
  <2> QED BY <2>1, <2>2 DEF AccountRows
<1>4. /\ devices' \in [Calls -> DeviceRows]
      /\ \A c \in Calls : devices'[c].user = devices[c].user /\ (devices[c].state = "none" => devices'[c].state = "none")
  <2>1. UNCHANGED devices \/ \E c \in Calls :
          devices[c].state = "fresh" /\ devices' = [devices EXCEPT ![c] = [devices[c] EXCEPT !.state = "revoked"]]
    BY DEF RevokeDevice, Slide, ReadCookie, Logout, Expire, IssueTicket, RedeemTicket
  <2>2. \A c \in Calls : LET row == [devices[c] EXCEPT !.state = "revoked"] IN row \in DeviceRows /\ row.user = devices[c].user
    BY DEF DeviceRows, AccountRows
  <2> QED BY <2>1, <2>2 DEF AccountRows
<1>5. UNCHANGED calls \/ \E c \in Calls, row \in CallRows :
        /\ calls' = [calls EXCEPT ![c] = row] /\ calls[c].pc \in {"idle", "slide"}
        /\ row.pc \in {"slide", "over"} /\ (row.pc = "over" => row.flow = 0)
  <2>1. [NoCall EXCEPT !.pc = "over"] \in CallRows
    <3>1. 0 \in AccountIds
      BY AccountAssumption DEF AccountIds
    <3> QED BY <3>1 DEF CallRows, NoCall, NoCred, LoginRows, Owner
  <2>2. \A f \in Flows : [pc |-> "slide", flow |-> f, read |-> logins[f]] \in CallRows
    BY DEF CallRows, AccountRows
  <2>3. ASSUME NEW c \in Calls, NEW f \in Flows, ReadCookie(c, f)
        PROVE  /\ calls[c].pc = "idle"
               /\ \/ calls' = [calls EXCEPT ![c] = [pc |-> "slide", flow |-> f, read |-> logins[f]]]
                  \/ calls' = [calls EXCEPT ![c] = [NoCall EXCEPT !.pc = "over"]]
    BY <2>3 DEF ReadCookie
  <2>4. ASSUME NEW c \in Calls, Slide(c)
        PROVE  calls[c].pc = "slide" /\ calls' = [calls EXCEPT ![c] = [NoCall EXCEPT !.pc = "over"]]
    BY <2>4 DEF Slide
  <2>5. [NoCall EXCEPT !.pc = "over"].flow = 0 /\ [NoCall EXCEPT !.pc = "over"].pc = "over"
    BY DEF NoCall
  <2>6. CASE \E c \in Calls, f \in Flows : ReadCookie(c, f)
    BY <2>1, <2>2, <2>3, <2>5, <2>6
  <2>7. CASE \E c \in Calls : Slide(c)
    BY <2>1, <2>4, <2>5, <2>7
  <2> QED BY <2>6, <2>7 DEF RevokeDevice, Logout, Expire, IssueTicket, RedeemTicket
<1>6. tickets' \in [Flows -> TicketRows] /\ TicketsOnce'
  <2> DEFINE Fine(row) == row \in TicketRows /\ row.uses <= 1 /\ (row.state \in {"none", "fresh"} => row.uses = 0)
  <2>1. \A f \in Flows : Fine(tickets[f])
    BY DEF AccountRows, TicketsOnce
  <2>2. ASSUME NEW f \in Flows PROVE
          /\ tickets[f].state = "none" => Fine([tickets[f] EXCEPT !.state = "fresh"])
          /\ Fine([tickets[f] EXCEPT !.state = "expired"])
          /\ tickets[f].state = "fresh" => \A same \in BOOLEAN :
               Fine([state |-> "used", uses |-> IF same THEN tickets[f].uses + 1 ELSE tickets[f].uses])
    BY <2>1 DEF TicketRows
  <2>3. UNCHANGED tickets \/ \E f \in Flows, row \in TicketRows : Fine(row) /\ tickets' = [tickets EXCEPT ![f] = row]
    <3>1. ASSUME NEW f \in Flows, Expire(f) \/ IssueTicket(f) \/ RedeemTicket(f)
          PROVE  UNCHANGED tickets \/ \E row \in TicketRows : Fine(row) /\ tickets' = [tickets EXCEPT ![f] = row]
      <4> HIDE DEF Fine
      <4>1. \A row : Fine(row) => row \in TicketRows
        BY DEF Fine
      <4> QED BY <2>2, <3>1, <4>1 DEF Expire, IssueTicket, RedeemTicket
    <3> QED BY <3>1 DEF RevokeDevice, Slide, ReadCookie, Logout
  <2>4. tickets' \in [Flows -> TicketRows] /\ \A f \in Flows : Fine(tickets'[f])
    <3> HIDE DEF Fine
    <3> QED BY <2>1, <2>3 DEF AccountRows
  <2> QED BY <2>4 DEF TicketsOnce
<1>7. calls' \in [Calls -> CallRows]
  BY <1>5 DEF AccountRows
<1>8. AccountRows'
  BY <1>1, <1>2, <1>3, <1>4, <1>6, <1>7 DEF AccountRows
<1>9. CredsPoint'
  BY <1>1, <1>2, <1>4 DEF CredsPoint
<1>10. IssuedLast'
  BY <1>1, <1>2, <1>3 DEF IssuedLast
<1>11. \A c \in Calls : Redeeming(c)' => Redeeming(c) /\ calls'[c].flow = calls[c].flow
  BY <1>5, NoFlowZero DEF Redeeming, AccountRows
<1>12. CodesOnce'
  <2>1. \A c \in Calls : Redeeming(c)' => codes'[calls'[c].flow].state = "used"
    BY <1>3, <1>11 DEF CodesOnce, Redeeming
  <2> QED BY <1>11, <2>1 DEF CodesOnce
<1>13. DevicesLast'
  BY <1>4, <1>5 DEF DevicesLast, AccountRows
<1> QED BY <1>1, <1>6, <1>8, <1>9, <1>10, <1>12, <1>13 DEF OwnerThere, UsersApart, KeysOnce
\* A claim moves every credential of the account to the owner, and the account is gone.
LEMMA Claimed ==
  ASSUME AccountInv, NEW u \in AccountIds, ClaimOwner(u)
  PROVE  AccountInv'
<1> USE DEF AccountInv
<1> DEFINE Moved(cred) == [cred EXCEPT !.user = IF @ = u THEN Owner ELSE @]
           Claim(row) == [row EXCEPT !.sub = users[u].sub]
<1>1. counted' \in [AccountEvents -> Nat] /\ UNCHANGED <<flows, calls, tickets, pathKeys>>
  BY EventCounted DEF ClaimOwner, AccountEvents, AccountRows
<1>2. Owner \in AccountIds /\ u # Owner /\ users[u].there
  BY AccountAssumption DEF AccountIds, Owner, ClaimOwner
<1>3. users' = [users EXCEPT ![u] = Gone, ![Owner] = Claim(users[Owner])]
  BY <1>2 DEF ClaimOwner, AccountRows
<1>4. Gone \in UserRows /\ Gone.there = FALSE
  BY DEF Gone, NoUser, UserRows
<1>5. /\ Claim(users[Owner]) \in UserRows /\ Claim(users[Owner]).there
      /\ Claim(users[Owner]).sub = users[u].sub /\ Claim(users[Owner]).folder = 0
  BY <1>2 DEF AccountRows, UserRows, OwnerThere
<1>6. /\ logins' = [f \in Flows |-> Moved(logins[f])]
      /\ codes' = [f \in Flows |-> Moved(codes[f])]
      /\ devices' = [c \in Calls |-> Moved(devices[c])]
  BY DEF ClaimOwner
<1>7. \A f \in Flows : /\ Moved(logins[f]) \in LoginRows /\ Moved(logins[f]).state = logins[f].state
                       /\ Moved(logins[f]).user = IF logins[f].user = u THEN Owner ELSE logins[f].user
  BY <1>2 DEF AccountRows, LoginRows
<1>8. \A f \in Flows : Moved(codes[f]) \in CodeRows /\ Moved(codes[f]).state = codes[f].state
  BY <1>2 DEF AccountRows, CodeRows
<1>9. \A c \in Calls : /\ Moved(devices[c]) \in DeviceRows /\ Moved(devices[c]).state = devices[c].state
                       /\ Moved(devices[c]).user = IF devices[c].user = u THEN Owner ELSE devices[c].user
  BY <1>2 DEF AccountRows, DeviceRows
<1> HIDE DEF Moved, Claim
<1>10. \A v \in AccountIds : users'[v] = IF v = Owner THEN Claim(users[Owner]) ELSE IF v = u THEN Gone ELSE users[v]
  BY <1>2, <1>3 DEF AccountRows
<1>11. AccountRows'
  BY <1>1, <1>3, <1>4, <1>5, <1>6, <1>7, <1>8, <1>9 DEF AccountRows
<1>12. OwnerThere'
  BY <1>2, <1>5, <1>10 DEF OwnerThere
<1>13. UsersApart'
  BY <1>2, <1>4, <1>5, <1>10 DEF UsersApart, OwnerThere
<1>14. CredsPoint'
  <2>1. \A v \in AccountIds : v # u /\ users[v].there => users'[v].there
    BY <1>2, <1>5, <1>10
  <2>2. users'[Owner].there
    BY <1>2, <1>5, <1>10
  <2>3. /\ \A f \in Flows : logins[f].user \in AccountIds /\ users[logins[f].user].there
        /\ \A c \in Calls : devices[c].user \in AccountIds /\ users[devices[c].user].there
    BY DEF AccountRows, LoginRows, DeviceRows, CredsPoint
  <2> QED BY <1>6, <1>7, <1>9, <2>1, <2>2, <2>3 DEF CredsPoint
<1>15. IssuedLast' /\ CodesOnce' /\ DevicesLast'
  BY <1>1, <1>6, <1>7, <1>8, <1>9 DEF IssuedLast, CodesOnce, Redeeming, DevicesLast, AccountRows, CallRows
<1> QED BY <1>1, <1>11, <1>12, <1>13, <1>14, <1>15 DEF TicketsOnce, KeysOnce

\* A path has a key only if it had none, or has just given its old one up.
LEMMA KeysMade ==
  ASSUME AccountInv, CreateKey \/ RotateKey \/ RevokeActiveKey
  PROVE  AccountInv'
<1> USE DEF AccountInv
<1> DEFINE Keys == [1..MaxKeys -> {"none", "active", "revoked"}]
<1>1. /\ counted' \in [AccountEvents -> Nat]
      /\ UNCHANGED <<users, flows, logins, codes, devices, calls, tickets>>
  BY EventCounted DEF CreateKey, RotateKey, RevokeActiveKey, AccountEvents, AccountRows
<1>2. Revoked \in Keys /\ \A k \in 1..MaxKeys : Revoked[k] # "active"
  BY DEF Revoked, AccountRows
<1>3. pathKeys' \in Keys /\ \A j, k \in 1..MaxKeys : pathKeys'[j] = "active" /\ pathKeys'[k] = "active" => j = k
  <2>1. ASSUME NEW before \in Keys, \A k \in 1..MaxKeys : before[k] # "active", FreshKey(before)
        PROVE  pathKeys' \in Keys /\ \A j, k \in 1..MaxKeys : pathKeys'[j] = "active" /\ pathKeys'[k] = "active" => j = k
    <3>1. PICK k \in 1..MaxKeys : pathKeys' = [before EXCEPT ![k] = "active"]
      BY <2>1 DEF FreshKey
    <3> QED BY <2>1, <3>1
  <2>2. CASE CreateKey
    BY <2>1, <2>2 DEF CreateKey, Active, AccountRows
  <2>3. CASE RotateKey
    BY <1>2, <2>1, <2>3 DEF RotateKey
  <2>4. CASE RevokeActiveKey
    BY <1>2, <2>4 DEF RevokeActiveKey
  <2> QED BY <2>2, <2>3, <2>4
<1>4. AccountRows' /\ KeysOnce'
  BY <1>1, <1>3 DEF AccountRows, KeysOnce
<1> QED BY <1>1, <1>4
     DEF OwnerThere, UsersApart, CredsPoint, IssuedLast, CodesOnce, Redeeming, DevicesLast, TicketsOnce

\* Every step keeps the invariant.
LEMMA AccountStep ==
  ASSUME AccountInv, [AccountNext]_accountVars
  PROVE  AccountInv'
<1>1. CASE UNCHANGED accountVars
  BY <1>1 DEF accountVars, AccountInv, AccountRows, OwnerThere, UsersApart, CredsPoint, IssuedLast, CodesOnce,
     Redeeming, DevicesLast, TicketsOnce, KeysOnce
<1>2. ASSUME NEW f \in Flows, Login(f) \/ SignInFails(f) \/ Callback(f) \/ SignInRead(f) PROVE AccountInv'
  BY <1>2, SigningIn
<1>3. ASSUME NEW f \in Flows, SignInCommit(f) PROVE AccountInv'
  BY <1>3, SigningUp
<1>4. ASSUME NEW f \in Flows, Issue(f) PROVE AccountInv'
  BY <1>4, Issuing
<1>5. ASSUME NEW f \in Flows, NEW c \in Calls, Redeem(c, f) PROVE AccountInv'
  BY <1>5, Redemption
<1>6. ASSUME NEW c \in Calls, CreateDevice(c) \/ \E f \in Flows : AddDevice(c, f) PROVE AccountInv'
  BY <1>6, DeviceMade
<1>7. ASSUME \/ \E c \in Calls : RevokeDevice(c) \/ Slide(c) \/ \E f \in Flows : ReadCookie(c, f)
             \/ \E f \in Flows : Logout(f) \/ Expire(f) \/ IssueTicket(f) \/ RedeemTicket(f)
      PROVE  AccountInv'
  BY <1>7, CredentialUsed
<1>8. ASSUME NEW u \in AccountIds, ClaimOwner(u) PROVE AccountInv'
  BY <1>8, Claimed
<1>9. CASE CreateKey \/ RotateKey \/ RevokeActiveKey
  BY <1>9, KeysMade
<1> QED BY <1>1, <1>2, <1>3, <1>4, <1>5, <1>6, <1>7, <1>8, <1>9 DEF AccountNext

\* What is meant to happen once happens once, however sign-ins, redemptions and claims interleave:
\* one account and one folder for a person, one device for a code, one connection for a ticket, one
\* key for a path; and no credential points at an account that is gone (auth.py, users.py, oidc.py).
THEOREM EverythingOnce == AccountInit /\ [][AccountNext]_accountVars => []OnceOnly
<1>1. AccountInit => AccountInv
  BY AccountInitInv
<1>2. AccountInv /\ [AccountNext]_accountVars => AccountInv'
  BY AccountStep
<1>3. AccountInv => OnceOnly
  BY AccountInvSays
<1> QED BY <1>1, <1>2, <1>3, PTL
\* What a login or a device may come to, seen from a step.
LoginStands(f) ==
  /\ SignedOut(f) =>
       /\ counted'["logout"] > counted["logout"] \/ counted'["expire"] > counted["expire"]
       /\ \A g \in Flows : SignedOut(g) => g = f
  /\ logins[f].state = "out" => logins'[f].state = "out"
DeviceStands(c) == devices[c].state = "revoked" => devices'[c].state = "revoked"

\* No step signs a browser out by the way, or brings back what was logged out or revoked.
LEMMA CredentialsStand ==
  ASSUME AccountInv, AccountNext
  PROVE  (\A f \in Flows : LoginStands(f)) /\ (\A c \in Calls : DeviceStands(c))
<1> USE DEF AccountInv
<1>1. ASSUME UNCHANGED logins PROVE \A f \in Flows : LoginStands(f)
  BY <1>1 DEF LoginStands, SignedOut
<1>2. ASSUME UNCHANGED devices PROVE \A c \in Calls : DeviceStands(c)
  BY <1>2 DEF DeviceStands
<1>3. ASSUME NEW f \in Flows, Issue(f) PROVE \A g \in Flows : LoginStands(g)
  <2>1. logins[f].state = "none"
    BY <1>3 DEF IssuedLast, Issue
  <2>2. \A g \in Flows : g # f => logins'[g] = logins[g]
    BY <1>3 DEF Issue, AccountRows
  <2> QED BY <2>1, <2>2 DEF LoginStands, SignedOut
<1>4. ASSUME NEW c \in Calls, Slide(c) PROVE \A g \in Flows : LoginStands(g)
  <2>1. CASE calls[c].flow \in Flows
    <3>1. \A g \in Flows : logins'[g] = logins[g]
                           \/ (logins[g].state \in {"half", "expired"} /\ logins'[g].state = "fresh")
      BY <1>4, <2>1 DEF Slide, AccountRows, LoginRows
    <3> QED BY <3>1 DEF LoginStands, SignedOut
  <2>2. CASE calls[c].flow \notin Flows
    BY <1>1, <1>4, <2>2 DEF Slide, AccountRows
  <2> QED BY <2>1, <2>2
<1>5. ASSUME NEW f \in Flows, Logout(f) \/ Expire(f) PROVE \A g \in Flows : LoginStands(g)
  <2>1. counted'["logout"] > counted["logout"] \/ counted'["expire"] > counted["expire"]
    BY <1>5, CountRises DEF Logout, Expire, AccountEvents, AccountRows
  <2>2. \A g \in Flows : g # f => logins'[g] = logins[g]
    BY <1>5 DEF Logout, Expire, AccountRows
  <2>3. logins[f].state = "out" => logins'[f].state = "out"
    BY <1>5 DEF Logout, Expire, AccountRows, LoginRows
  <2>4. \A g \in Flows : SignedOut(g) => g = f
    BY <2>2 DEF SignedOut
  <2> QED BY <2>1, <2>2, <2>3, <2>4 DEF LoginStands
<1>6. ASSUME NEW u \in AccountIds, ClaimOwner(u)
      PROVE  (\A f \in Flows : LoginStands(f)) /\ (\A c \in Calls : DeviceStands(c))
  <2>1. \A f \in Flows : logins'[f].state = logins[f].state
    BY <1>6 DEF ClaimOwner, AccountRows, LoginRows
  <2>2. \A c \in Calls : devices'[c].state = devices[c].state
    BY <1>6 DEF ClaimOwner, AccountRows, DeviceRows
  <2> QED BY <2>1, <2>2 DEF LoginStands, SignedOut, DeviceStands
<1>7. ASSUME NEW c \in Calls, CreateDevice(c) \/ \E f \in Flows : AddDevice(c, f)
      PROVE  \A d \in Calls : DeviceStands(d)
  <2>1. devices[c].state = "none"
    BY <1>7 DEF DevicesLast, CreateDevice, AddDevice, AccountRows, DeviceRows
  <2>2. \A d \in Calls : d # c => devices'[d] = devices[d]
    BY <1>7 DEF CreateDevice, AddDevice, AccountRows
  <2> QED BY <2>1, <2>2 DEF DeviceStands
<1>8. ASSUME NEW c \in Calls, RevokeDevice(c) PROVE \A d \in Calls : DeviceStands(d)
  <2>1. \A d \in Calls : devices'[d] = devices[d] \/ devices[d].state = "fresh"
    BY <1>8 DEF RevokeDevice, AccountRows
  <2> QED BY <2>1 DEF DeviceStands
<1>9. ASSUME NEW f \in Flows,
             Login(f) \/ SignInFails(f) \/ Callback(f) \/ SignInRead(f) \/ SignInCommit(f) \/ IssueTicket(f)
               \/ RedeemTicket(f) \/ \E c \in Calls : Redeem(c, f) \/ ReadCookie(c, f)
      PROVE  UNCHANGED <<logins, devices>>
  BY <1>9 DEF Login, SignInFails, Callback, SignInRead, SignInCommit, IssueTicket, RedeemTicket, Redeem, ReadCookie
<1>10. ASSUME CreateKey \/ RotateKey \/ RevokeActiveKey PROVE UNCHANGED <<logins, devices>>
  BY <1>10 DEF CreateKey, RotateKey, RevokeActiveKey
<1>11. ASSUME NEW f \in Flows, Issue(f) \/ Logout(f) \/ Expire(f) PROVE UNCHANGED devices
  BY <1>11 DEF Issue, Logout, Expire
<1>12. ASSUME NEW c \in Calls, Slide(c) PROVE UNCHANGED devices
  BY <1>12 DEF Slide
<1>13. ASSUME NEW c \in Calls, CreateDevice(c) \/ RevokeDevice(c) \/ \E f \in Flows : AddDevice(c, f)
       PROVE  UNCHANGED logins
  BY <1>13 DEF CreateDevice, RevokeDevice, AddDevice
<1>14. CASE \E f \in Flows : Login(f) \/ SignInFails(f) \/ Callback(f) \/ SignInRead(f) \/ SignInCommit(f)
               \/ IssueTicket(f) \/ RedeemTicket(f) \/ \E c \in Calls : Redeem(c, f) \/ ReadCookie(c, f)
  BY <1>1, <1>2, <1>9, <1>14
<1>15. CASE CreateKey \/ RotateKey \/ RevokeActiveKey
  BY <1>1, <1>2, <1>10, <1>15
<1>16. CASE \E f \in Flows : Issue(f) \/ Logout(f) \/ Expire(f)
  BY <1>2, <1>3, <1>5, <1>11, <1>16
<1>17. CASE \E c \in Calls : Slide(c)
  BY <1>2, <1>4, <1>12, <1>17
<1>18. CASE \E c \in Calls : CreateDevice(c) \/ RevokeDevice(c) \/ \E f \in Flows : AddDevice(c, f)
  BY <1>1, <1>7, <1>8, <1>13, <1>18
<1> QED BY <1>6, <1>14, <1>15, <1>16, <1>17, <1>18 DEF AccountNext

\* A browser is signed out by a logout or by time only, it alone, and what was logged out or revoked
\* never comes back, though a request that read it is under way (auth.py).
THEOREM LoginsStayHonest == AccountInit /\ [][AccountNext]_accountVars => LoginsHonest
<1>1. AccountInit => AccountInv
  BY AccountInitInv
<1>2. AccountInv /\ [AccountNext]_accountVars => AccountInv'
  BY AccountStep
<1>3. AccountInv /\ [AccountNext]_accountVars =>
        [(\A f \in Flows : LoginStands(f)) /\ (\A c \in Calls : DeviceStands(c))]_accountVars
  BY CredentialsStand
<1>4. [(\A f \in Flows : LoginStands(f)) /\ (\A c \in Calls : DeviceStands(c))]_accountVars =>
        [/\ \A f \in Flows :
              /\ SignedOut(f) => /\ \/ counted'["logout"] > counted["logout"]
                                    \/ counted'["expire"] > counted["expire"]
                                 /\ \A g \in Flows : SignedOut(g) => g = f
              /\ logins[f].state = "out" => logins'[f].state = "out"
         /\ \A c \in Calls : devices[c].state = "revoked" => devices'[c].state = "revoked"]_accountVars
  BY DEF LoginStands, DeviceStands
<1> QED BY <1>1, <1>2, <1>3, <1>4, PTL DEF LoginsHonest

-----------------------------------------------------------------------------
(* Recordings: the invariant *)

Tracks == {"off", "audio", "video"}
ReqRows == [pc : {"idle", "decode", "insert"}, rec : Recs \cup {"none"}]
FeedRows == [pc : {"none", "get", "feed", "end"}, sid : 0..MaxSessions, at : 0..Total]
SessionRows == [status : {"none", "live", "ended"}, rec : Recs \cup Paths \cup {"none"},
                stored : 0..Total, uploading : BOOLEAN, cut : BOOLEAN]
TickRows == [on : BOOLEAN, listed : [Paths -> Tracks], left : SUBSET Paths]

RecordingRows ==
  /\ kept \subseteq Recs /\ answers \in [Recs -> SUBSET Sessions] /\ keys \subseteq Paths
  /\ reqs \in [Reqs -> ReqRows] /\ feeds \in [Reqs -> FeedRows] /\ rows \in [Sessions -> SessionRows]
  /\ onAir \in [Paths -> Tracks] /\ tick \in TickRows
  /\ active \in [Paths -> 0..MaxSessions] /\ missed \in [Paths -> 0..Grace] /\ ending \subseteq Sessions

\* A request that is served names a recording and feeds nothing yet.
ReqsSound == \A r \in Reqs : reqs[r].pc # "idle" => reqs[r].rec \in Recs /\ feeds[r].pc = "none"
\* A recording has one session, and what was answered names it.
Holds(s) == rows[s].status # "none"
OneSession == \A s, t \in Sessions : Holds(s) /\ Holds(t) /\ rows[s].rec = rows[t].rec /\ rows[s].rec \in Recs => s = t
AnswersSound == \A rec \in Recs : \A s \in answers[rec] : Holds(s) /\ rows[s].rec = rec
\* A task feeds the session of a recording, no other task feeds it, and it has stored what it fed.
Feeds(r, s) == feeds[r].pc # "none" /\ feeds[r].sid = s
FeedsSound ==
  /\ \A r \in Reqs : feeds[r].pc # "none" =>
       feeds[r].sid \in Sessions /\ Holds(feeds[r].sid) /\ rows[feeds[r].sid].rec \in Recs
  /\ \A q, r \in Reqs : \A s \in Sessions : Feeds(q, s) /\ Feeds(r, s) => q = r
  /\ \A r \in Reqs : \A s \in Sessions : Feeds(r, s) /\ feeds[r].pc \in {"get", "feed"} => rows[s].stored = feeds[r].at
  /\ \A r \in Reqs : \A s \in Sessions : Feeds(r, s) /\ feeds[r].pc = "end" => rows[s].cut \/ rows[s].stored = Total
\* A session that nothing cut short holds its recording, or a task is still feeding it.
WholeOrFed ==
  \A s \in Sessions : Holds(s) /\ rows[s].rec \in Recs /\ ~rows[s].cut =>
    rows[s].stored = Total \/ (rows[s].status = "live" /\ Feeding(s))
\* The streams the server follows and the ones it ends are sessions of streams.
StreamsSound ==
  /\ \A p \in Paths : active[p] # 0 => Holds(active[p]) /\ rows[active[p]].rec \in Paths
  /\ \A s \in ending : Holds(s) /\ rows[s].rec \in Paths

RecordingInv ==
  RecordingRows /\ ReqsSound /\ OneSession /\ AnswersSound /\ FeedsSound /\ WholeOrFed /\ StreamsSound

-----------------------------------------------------------------------------
(* Recordings: the proof *)

\* The invariant holds where everything begins.
LEMMA RecordingInitInv == RecordingInit => RecordingInv
<1> SUFFICES ASSUME RecordingInit PROVE RecordingInv
  OBVIOUS
<1> USE RecordingAssumption, RecordingNames
<1>1. RecordingRows
  BY DEF RecordingInit, RecordingRows, ReqRows, FeedRows, SessionRows, TickRows, Tracks, NoReq, NoFeed, NoRow, NoTick
<1>2. ReqsSound /\ OneSession /\ AnswersSound /\ FeedsSound /\ WholeOrFed /\ StreamsSound
  BY DEF RecordingInit, ReqsSound, OneSession, AnswersSound, FeedsSound, Feeds, WholeOrFed, StreamsSound, Holds,
     NoReq, NoFeed, NoRow
<1> QED BY <1>1, <1>2 DEF RecordingInv

\* What the invariant says is what an acknowledgement promises.
LEMMA RecordingInvSays == RecordingInv => UploadOnceWhole
<1> SUFFICES ASSUME RecordingInv PROVE UploadOnceWhole
  OBVIOUS
<1> USE DEF RecordingInv
<1>1. RecordingTypeOK
  BY DEF RecordingRows, RecordingTypeOK, ReqRows, FeedRows, SessionRows, TickRows, Tracks
<1>2. ASSUME NEW rec \in Recs PROVE Cardinality(answers[rec]) <= 1
  <2>1. \A s, t \in answers[rec] : s = t
    BY DEF AnswersSound, OneSession, RecordingRows
  <2> QED BY <2>1, AtMostOne
<1>3. \A s \in Sessions :
        rows[s].status = "ended" /\ rows[s].rec \in Recs /\ ~rows[s].cut => rows[s].stored = Total
  BY DEF WholeOrFed, Holds
<1> QED BY <1>1, <1>2, <1>3 DEF UploadOnceWhole

\* A step that changes neither a row nor a task keeps what they say.
LEMMA RowsStand ==
  ASSUME RecordingInv, UNCHANGED <<rows, feeds>>
  PROVE  OneSession' /\ FeedsSound' /\ WholeOrFed'
BY DEF RecordingInv, OneSession, FeedsSound, Feeds, WholeOrFed, Feeding, Holds

\* What is followed stays a stream's as long as rows keep what they are of.
LEMMA StreamsStand ==
  ASSUME RecordingInv, UNCHANGED <<active, ending>>,
         \A s \in Sessions : Holds(s) => Holds(s)' /\ rows'[s].rec = rows[s].rec
  PROVE  StreamsSound'
<1>1. \A p \in Paths : active[p] \in 0..MaxSessions
  BY DEF RecordingInv, RecordingRows
<1>2. MaxSessions \in Nat
  BY RecordingAssumption
<1>3. \A p \in Paths : active[p] # 0 => active[p] \in Sessions
  BY <1>1, <1>2 DEF Sessions
<1>4. \A s \in ending : s \in Sessions
  BY DEF RecordingInv, RecordingRows
<1> QED BY <1>3, <1>4 DEF RecordingInv, StreamsSound

\* Publishers come and go, keys are revoked and polls look: no row, no request and no task moves.
LEMMA Polling ==
  ASSUME RecordingInv,
         OnlinePaths \/ \E p \in Paths : Publish(p) \/ Drop(p) \/ RevokeKey(p) \/ Seen(p) \/ NotStarted(p)
  PROVE  RecordingInv'
<1> USE DEF RecordingInv
<1>1. UNCHANGED <<uploadVars, rows, active, ending>>
  BY DEF OnlinePaths, Publish, Drop, RevokeKey, Seen, NotStarted
<1>2. tick' \in TickRows
  <2>1. \A p \in Paths : [tick EXCEPT !.left = @ \ {p}] \in TickRows
    BY DEF RecordingRows, TickRows
  <2>2. [on |-> TRUE, listed |-> onAir, left |-> {p \in Paths : onAir[p] # "off"}] \in TickRows
    BY DEF RecordingRows, TickRows
  <2>3. tick \in TickRows
    BY DEF RecordingRows
  <2> QED BY <2>1, <2>2, <2>3 DEF OnlinePaths, Publish, Drop, RevokeKey, Seen, NotStarted, Looked
<1>3. onAir' \in [Paths -> Tracks] /\ keys' \subseteq Paths
  BY DEF OnlinePaths, Publish, Drop, RevokeKey, Seen, NotStarted, Tracks, RecordingRows
<1>4. missed' \in [Paths -> 0..Grace]
  <2>1. 0 \in 0..Grace
    BY RecordingAssumption
  <2> QED BY <2>1 DEF OnlinePaths, Publish, Drop, RevokeKey, Seen, NotStarted, RecordingRows
<1>5. RecordingRows'
  BY <1>1, <1>2, <1>3, <1>4 DEF RecordingRows, uploadVars
<1>6. ReqsSound' /\ AnswersSound' /\ StreamsSound'
  BY <1>1 DEF ReqsSound, AnswersSound, StreamsSound, Holds, uploadVars
<1> QED BY <1>1, <1>5, <1>6, RowsStand DEF uploadVars
\* Requests come, are refused, are decoded or find their session: no row and no task moves.
LEMMA Uploading ==
  ASSUME RecordingInv, NEW r \in Reqs,
         UploadRefused(r) \/ DecodeToPcm(r) \/ \E rec \in Recs : UploadRecording(r, rec)
  PROVE  RecordingInv'
<1> USE DEF RecordingInv
<1>1. UNCHANGED <<feeds, rows, streamVars>>
  BY DEF UploadRefused, DecodeToPcm, UploadRecording
<1>2. reqs[r] \in ReqRows
  BY DEF RecordingRows
<1>3. PICK req \in ReqRows : /\ reqs' = [reqs EXCEPT ![r] = req]
                             /\ req.pc # "idle" => req.rec \in Recs /\ feeds[r].pc = "none"
  <2>1. NoReq \in ReqRows /\ NoReq.pc = "idle"
    BY DEF NoReq, ReqRows
  <2>2. ASSUME DecodeToPcm(r)
        PROVE  /\ reqs' = [reqs EXCEPT ![r] = [reqs[r] EXCEPT !.pc = "insert"]]
               /\ [reqs[r] EXCEPT !.pc = "insert"] \in ReqRows /\ reqs[r].rec \in Recs /\ feeds[r].pc = "none"
               /\ [reqs[r] EXCEPT !.pc = "insert"].rec = reqs[r].rec
    BY <1>2, <2>2 DEF DecodeToPcm, ReqRows, ReqsSound
  <2>3. ASSUME NEW rec \in Recs, UploadRecording(r, rec)
        PROVE  /\ feeds[r].pc = "none" /\ [pc |-> "decode", rec |-> rec] \in ReqRows
               /\ \/ reqs' = [reqs EXCEPT ![r] = NoReq]
                  \/ reqs' = [reqs EXCEPT ![r] = [pc |-> "decode", rec |-> rec]]
    BY <2>3 DEF UploadRecording, Answer, ReqRows
  <2>4. ASSUME UploadRefused(r) PROVE reqs' = [reqs EXCEPT ![r] = NoReq]
    BY <2>4 DEF UploadRefused
  <2> QED BY <2>1, <2>2, <2>3, <2>4
<1>4. kept' \subseteq Recs
  BY DEF UploadRefused, DecodeToPcm, UploadRecording, RecordingRows
<1>5. answers' \in [Recs -> SUBSET Sessions] /\ AnswersSound'
  <2>1. ASSUME UNCHANGED answers PROVE answers' \in [Recs -> SUBSET Sessions] /\ AnswersSound'
    BY <1>1, <2>1 DEF RecordingRows, AnswersSound, Holds
  <2>2. ASSUME NEW rec \in Recs, NEW s \in RowsOf(rec), answers' = [answers EXCEPT ![rec] = @ \cup {s}]
        PROVE  answers' \in [Recs -> SUBSET Sessions] /\ AnswersSound'
    BY <1>1, <2>2 DEF RecordingRows, AnswersSound, Holds, RowsOf
  <2>3. ASSUME NEW rec \in Recs, UploadRecording(r, rec)
        PROVE  UNCHANGED answers \/ \E s \in RowsOf(rec) : answers' = [answers EXCEPT ![rec] = @ \cup {s}]
    BY <2>3 DEF UploadRecording, Answer
  <2> QED BY <2>1, <2>2, <2>3 DEF UploadRefused, DecodeToPcm
<1>6. RecordingRows'
  BY <1>1, <1>3, <1>4, <1>5 DEF RecordingRows, streamVars
<1>7. ReqsSound'
  BY <1>1, <1>3 DEF ReqsSound, RecordingRows
<1>8. StreamsSound'
  BY <1>1 DEF StreamsSound, Holds, streamVars
<1> QED BY <1>1, <1>5, <1>6, <1>7, <1>8, RowsStand

\* A session that ends keeps what it holds, and is whole or was cut short.
LEMMA RowEnds ==
  ASSUME RecordingInv, NEW s \in Sessions, Holds(s), UNCHANGED <<kept, answers, reqs, feeds, keys, onAir, active, missed, tick>>,
         ending' \subseteq ending, NEW row \in SessionRows, rows' = [rows EXCEPT ![s] = row],
         row.status = "ended", row.rec = rows[s].rec, row.stored = rows[s].stored, rows[s].cut => row.cut,
         row.rec \in Recs /\ ~row.cut => row.stored = Total
  PROVE  RecordingInv'
<1> USE DEF RecordingInv
<1>1. \A t \in Sessions : rows'[t] = IF t = s THEN row ELSE rows[t]
  BY DEF RecordingRows
<1>2. \A t \in Sessions : (Holds(t)' <=> Holds(t)) /\ rows'[t].rec = rows[t].rec
                          /\ rows'[t].stored = rows[t].stored /\ (rows[t].cut => rows'[t].cut)
  BY <1>1 DEF Holds
<1>3. RecordingRows'
  BY DEF RecordingRows
<1>4. OneSession' /\ ReqsSound'
  BY <1>2 DEF OneSession, ReqsSound
<1>5. AnswersSound'
  <2>1. \A rec \in Recs : answers[rec] \subseteq Sessions
    BY DEF RecordingRows
  <2> QED BY <1>2, <2>1 DEF AnswersSound
<1>6. FeedsSound'
  BY <1>2 DEF FeedsSound, Feeds
<1>7. WholeOrFed'
  BY <1>1, <1>2 DEF WholeOrFed, Feeding
<1>8. StreamsSound'
  <2>1. \A p \in Paths : active[p] # 0 => active[p] \in Sessions
    BY RecordingAssumption DEF RecordingRows, Sessions
  <2>2. ending \subseteq Sessions
    BY DEF RecordingRows
  <2> QED BY <1>2, <2>1, <2>2 DEF StreamsSound
<1> QED BY <1>3, <1>4, <1>5, <1>6, <1>7, <1>8

\* The owner, the watchdog or the end of a stream ends a session.
LEMMA SessionEnds ==
  ASSUME RecordingInv, NEW s \in Sessions, OwnerEnds(s) \/ CheckOnce(s) \/ Finish(s)
  PROVE  RecordingInv'
<1> USE DEF RecordingInv
<1>1. rows[s] \in SessionRows
  BY DEF RecordingRows
<1> DEFINE Ended == [rows[s] EXCEPT !.status = "ended"]
           Cut == [rows[s] EXCEPT !.status = "ended", !.cut = TRUE]
<1>2. /\ Ended \in SessionRows /\ Ended.status = "ended" /\ Ended.rec = rows[s].rec /\ Ended.stored = rows[s].stored
      /\ Ended.cut = rows[s].cut
  BY <1>1 DEF SessionRows
<1>3. /\ Cut \in SessionRows /\ Cut.status = "ended" /\ Cut.rec = rows[s].rec /\ Cut.stored = rows[s].stored
      /\ Cut.cut
  BY <1>1 DEF SessionRows
<1>4. CASE OwnerEnds(s)
  <2>1. rows' = [rows EXCEPT ![s] = Cut] /\ Holds(s)
    BY <1>1, <1>4 DEF OwnerEnds, Live, Holds, SessionRows, RecordingRows
  <2> HIDE DEF Cut
  <2>2. UNCHANGED <<kept, answers, reqs, feeds, keys, onAir, active, missed, tick>> /\ ending' \subseteq ending
    BY <1>4 DEF OwnerEnds, uploadVars, streamVars
  <2> QED BY <1>3, <2>1, <2>2, RowEnds
<1>5. CASE CheckOnce(s)
  <2>1. rows' = [rows EXCEPT ![s] = Ended] /\ Holds(s) /\ ~Feeding(s)
    BY <1>1, <1>5 DEF CheckOnce, Live, Holds
  <2>2. Ended.rec \in Recs /\ ~Ended.cut => Ended.stored = Total
    BY <1>2, <2>1 DEF WholeOrFed
  <2> HIDE DEF Ended
  <2>3. UNCHANGED <<kept, answers, reqs, feeds, keys, onAir, active, missed, tick>> /\ ending' \subseteq ending
    BY <1>5 DEF CheckOnce, uploadVars, streamVars
  <2> QED BY <1>2, <2>1, <2>2, <2>3, RowEnds
<1>6. CASE Finish(s)
  <2>1. Holds(s) /\ rows[s].rec \notin Recs
    BY <1>6, RecordingNames DEF Finish, StreamsSound
  <2>2. UNCHANGED <<kept, answers, reqs, feeds, keys, onAir, active, missed, tick>> /\ ending' \subseteq ending
    BY <1>6 DEF Finish, uploadVars
  <2>3. CASE rows' = [rows EXCEPT ![s] = Ended]
    <3> HIDE DEF Ended
    <3> QED BY <1>2, <2>1, <2>2, <2>3, RowEnds
  <2>4. CASE UNCHANGED rows
    <3>1. RecordingRows'
      BY <2>2, <2>4 DEF RecordingRows
    <3>2. ReqsSound' /\ AnswersSound' /\ StreamsSound'
      BY <2>2, <2>4 DEF ReqsSound, AnswersSound, StreamsSound, Holds
    <3> QED BY <2>2, <2>4, <3>1, <3>2, RowsStand
  <2> QED BY <1>6, <2>3, <2>4 DEF Finish
<1> QED BY <1>4, <1>5, <1>6
\* A new row is of what it was made for, and is in no answer, no task and no stream.
LEMMA NewRowIs ==
  ASSUME RecordingInv, NEW s \in Unused, NEW name \in Recs \cup Paths
  PROVE  /\ NewRow(name) \in SessionRows /\ NewRow(name).status = "live" /\ NewRow(name).rec = name
         /\ NewRow(name).stored = 0 /\ s \in Sessions /\ ~Holds(s)
         /\ \A rec \in Recs : s \notin answers[rec]
         /\ \A r \in Reqs : ~Feeds(r, s)
         /\ s \notin ending /\ \A p \in Paths : active[p] # s
<1> USE DEF RecordingInv
<1>1. /\ NewRow(name) \in SessionRows /\ NewRow(name).status = "live" /\ NewRow(name).rec = name
      /\ NewRow(name).stored = 0
  <2>1. 0 \in 0..Total
    BY RecordingAssumption
  <2> QED BY <2>1 DEF NewRow, NoRow, SessionRows
<1>2. s \in Sessions /\ ~Holds(s) /\ s # 0
  BY DEF Unused, Holds, Sessions
<1>3. \A rec \in Recs : s \notin answers[rec]
  BY <1>2 DEF AnswersSound
<1>4. \A r \in Reqs : ~Feeds(r, s)
  BY <1>2 DEF FeedsSound, Feeds
<1>5. s \notin ending /\ \A p \in Paths : active[p] # s
  BY <1>2 DEF StreamsSound
<1> QED BY <1>1, <1>2, <1>3, <1>4, <1>5

\* The first request of a recording makes its session and the task that feeds it; a later one, or
\* one that lost the race, is answered with it.
LEMMA Inserting ==
  ASSUME RecordingInv, NEW r \in Reqs, InsertRow(r)
  PROVE  RecordingInv'
<1> USE DEF RecordingInv
<1> DEFINE rec == reqs[r].rec
<1>1. rec \in Recs /\ feeds[r].pc = "none" /\ NoReq \in ReqRows /\ NoReq.pc = "idle"
  BY DEF InsertRow, ReqsSound, NoReq, ReqRows
<1>2. kept' \subseteq Recs /\ UNCHANGED streamVars
  BY DEF InsertRow, Answered, RecordingRows
<1>3. \E s \in Sessions :
        /\ answers' = [answers EXCEPT ![rec] = @ \cup {s}] /\ reqs' = [reqs EXCEPT ![r] = NoReq]
        /\ \/ s \in RowsOf(rec) /\ UNCHANGED <<rows, feeds>>
           \/ /\ RowsOf(rec) = {} /\ s \in Unused /\ rows' = [rows EXCEPT ![s] = NewRow(rec)] /\ Started(r, s)
  <2>1. RowsOf(rec) # {} => (CHOOSE s \in RowsOf(rec) : TRUE) \in RowsOf(rec)
    OBVIOUS
  <2>2. RowsOf(rec) \subseteq Sessions /\ Unused \subseteq Sessions
    BY DEF RowsOf, Unused
  <2> QED BY <2>1, <2>2 DEF InsertRow, Answer
<1>4. PICK s \in Sessions :
        /\ answers' = [answers EXCEPT ![rec] = @ \cup {s}] /\ reqs' = [reqs EXCEPT ![r] = NoReq]
        /\ \/ s \in RowsOf(rec) /\ UNCHANGED <<rows, feeds>>
           \/ /\ RowsOf(rec) = {} /\ s \in Unused /\ rows' = [rows EXCEPT ![s] = NewRow(rec)] /\ Started(r, s)
  BY <1>3
<1>5. /\ answers' \in [Recs -> SUBSET Sessions] /\ reqs' \in [Reqs -> ReqRows]
      /\ \A x \in Recs : answers'[x] = IF x = rec THEN answers[x] \cup {s} ELSE answers[x]
      /\ \A q \in Reqs : reqs'[q] = IF q = r THEN NoReq ELSE reqs[q]
  BY <1>1, <1>4 DEF RecordingRows
<1>6. CASE s \in RowsOf(rec) /\ UNCHANGED <<rows, feeds>>
  <2>1. RecordingRows'
    BY <1>2, <1>5, <1>6 DEF RecordingRows, streamVars
  <2>2. ReqsSound'
    BY <1>1, <1>5, <1>6 DEF ReqsSound
  <2>3. AnswersSound'
    BY <1>5, <1>6 DEF AnswersSound, RowsOf, Holds
  <2>4. StreamsSound'
    BY <1>2, <1>6 DEF StreamsSound, Holds, streamVars
  <2> QED BY <1>6, <2>1, <2>2, <2>3, <2>4, RowsStand
<1>7. CASE /\ RowsOf(rec) = {} /\ s \in Unused /\ rows' = [rows EXCEPT ![s] = NewRow(rec)] /\ Started(r, s)
  <2> DEFINE feed == [pc |-> "get", sid |-> s, at |-> 0]
  <2>1. /\ NewRow(rec) \in SessionRows /\ NewRow(rec).status = "live" /\ NewRow(rec).rec = rec
        /\ NewRow(rec).stored = 0 /\ ~Holds(s) /\ (\A x \in Recs : s \notin answers[x])
        /\ (\A q \in Reqs : ~Feeds(q, s)) /\ s \notin ending /\ (\A p \in Paths : active[p] # s)
    BY <1>1, <1>7, NewRowIs
  <2>2. feed \in FeedRows /\ feeds' = [feeds EXCEPT ![r] = feed]
    BY <1>7, RecordingAssumption DEF FeedRows, Started, Sessions
  <2>3. \A q \in Reqs : feeds'[q] = IF q = r THEN feed ELSE feeds[q]
    BY <2>2 DEF RecordingRows
  <2>4. feed.pc = "get" /\ feed.sid = s /\ feed.at = 0
    OBVIOUS
  <2> HIDE DEF feed
  <2>5. \A t \in Sessions : rows'[t] = IF t = s THEN NewRow(rec) ELSE rows[t]
    BY <1>7 DEF RecordingRows
  <2>6. RecordingRows'
    BY <1>2, <1>5, <1>7, <2>1, <2>2 DEF RecordingRows, streamVars
  <2>7. ReqsSound'
    BY <1>1, <1>5, <2>3 DEF ReqsSound
  <2>8. \A t \in Sessions : Holds(t)' <=> Holds(t) \/ t = s
    BY <2>1, <2>5 DEF Holds
  <2>9. OneSession'
    <3>1. \A t \in Sessions : Holds(t) => rows[t].rec # rec
      BY <1>7 DEF RowsOf, Holds
    <3> QED BY <2>1, <2>5, <2>8, <3>1 DEF OneSession
  <2>10. AnswersSound'
    <3>1. \A x \in Recs : answers[x] \subseteq Sessions
      BY DEF RecordingRows
    <3> QED BY <1>5, <2>1, <2>5, <2>8, <3>1 DEF AnswersSound
  <2>11. \A q \in Reqs : \A t \in Sessions : Feeds(q, t)' <=> Feeds(q, t) \/ (q = r /\ t = s)
    BY <1>1, <2>3, <2>4 DEF Feeds
  <2>12. FeedsSound'
    <3>1. \A q \in Reqs : feeds'[q].pc # "none" =>
            feeds'[q].sid \in Sessions /\ rows'[feeds'[q].sid].status # "none" /\ rows'[feeds'[q].sid].rec \in Recs
      BY <1>1, <2>1, <2>3, <2>4, <2>5 DEF FeedsSound, Holds
    <3>2. \A p, q \in Reqs : \A t \in Sessions : Feeds(p, t)' /\ Feeds(q, t)' => p = q
      BY <2>1, <2>11 DEF FeedsSound
    <3>3. \A q \in Reqs : \A t \in Sessions : Feeds(q, t)' /\ feeds'[q].pc \in {"get", "feed"} => rows'[t].stored = feeds'[q].at
      BY <2>1, <2>3, <2>4, <2>5, <2>11, <1>1 DEF FeedsSound, Feeds
    <3>4. \A q \in Reqs : \A t \in Sessions : Feeds(q, t)' /\ feeds'[q].pc = "end" => rows'[t].cut \/ rows'[t].stored = Total
      BY <2>1, <2>3, <2>4, <2>5, <2>11, <1>1 DEF FeedsSound, Feeds
    <3> QED BY <3>1, <3>2, <3>3, <3>4 DEF FeedsSound, Holds
  <2>13. WholeOrFed'
    <3>1. \A t \in Sessions : Feeding(t) => Feeding(t)'
      BY <1>1, <2>3 DEF Feeding
    <3>2. Feeding(s)'
      BY <2>3, <2>4 DEF Feeding
    <3> QED BY <2>1, <2>5, <2>8, <3>1, <3>2 DEF WholeOrFed
  <2>14. StreamsSound'
    <3>1. \A p \in Paths : active[p] # 0 => active[p] \in Sessions
      BY RecordingAssumption DEF RecordingRows, Sessions
    <3>2. ending \subseteq Sessions
      BY DEF RecordingRows
    <3> QED BY <1>2, <2>1, <2>5, <2>8, <3>1, <3>2 DEF StreamsSound, streamVars
  <2> QED BY <2>6, <2>7, <2>9, <2>10, <2>12, <2>13, <2>14
<1> QED BY <1>4, <1>6, <1>7

\* A stream that starts, or starts in part, has a row of its own.
LEMMA StreamStarts ==
  ASSUME RecordingInv, NEW p \in Paths, StartStream(p) \/ StartFails(p)
  PROVE  RecordingInv'
<1> USE DEF RecordingInv
<1>1. UNCHANGED <<uploadVars, onAir, keys, ending>>
  BY DEF StartStream, StartFails
<1>2. PICK s \in Unused : /\ rows' = [rows EXCEPT ![s] = NewRow(p)]
                          /\ UNCHANGED active \/ active' = [active EXCEPT ![p] = s]
  BY DEF StartStream, StartFails
<1>3. /\ NewRow(p) \in SessionRows /\ NewRow(p).status = "live" /\ NewRow(p).rec = p
      /\ s \in Sessions /\ ~Holds(s) /\ (\A rec \in Recs : s \notin answers[rec])
      /\ (\A r \in Reqs : ~Feeds(r, s)) /\ s \notin ending /\ (\A q \in Paths : active[q] # s)
  BY NewRowIs
<1>4. p \notin Recs
  BY RecordingNames
<1>5. \A t \in Sessions : rows'[t] = IF t = s THEN NewRow(p) ELSE rows[t]
  BY <1>2 DEF RecordingRows
<1>6. \A t \in Sessions : Holds(t)' <=> Holds(t) \/ t = s
  BY <1>3, <1>5 DEF Holds
<1>7. tick' \in TickRows
  <2>1. [tick EXCEPT !.left = @ \ {p}] \in TickRows /\ NoTick \in TickRows
    BY DEF RecordingRows, TickRows, NoTick, Tracks
  <2> QED BY <2>1 DEF StartStream, StartFails, Looked
<1>8. missed' \in [Paths -> 0..Grace]
  BY RecordingAssumption DEF StartStream, StartFails, RecordingRows
<1>9. active' \in [Paths -> 0..MaxSessions] /\ \A q \in Paths : active'[q] \in {active[q], s}
  <2>1. s \in 0..MaxSessions
    BY <1>3, RecordingAssumption DEF Sessions
  <2>2. active \in [Paths -> 0..MaxSessions]
    BY DEF RecordingRows
  <2> QED BY <1>2, <2>1, <2>2
<1>10. RecordingRows'
  BY <1>1, <1>2, <1>3, <1>7, <1>8, <1>9 DEF RecordingRows, uploadVars
<1>11. OneSession' /\ ReqsSound'
  BY <1>1, <1>3, <1>4, <1>5, <1>6 DEF OneSession, ReqsSound, uploadVars
<1>12. AnswersSound'
  <2>1. \A x \in Recs : answers[x] \subseteq Sessions
    BY DEF RecordingRows
  <2> QED BY <1>1, <1>3, <1>5, <1>6, <2>1 DEF AnswersSound, uploadVars
<1>13. \A r \in Reqs : \A t \in Sessions : (Feeds(r, t)' <=> Feeds(r, t)) /\ (Feeds(r, t) => t # s)
  BY <1>1, <1>3 DEF Feeds, uploadVars
<1>14. FeedsSound'
  BY <1>1, <1>3, <1>5, <1>6, <1>13 DEF FeedsSound, uploadVars, Feeds
<1>15. WholeOrFed'
  BY <1>1, <1>3, <1>4, <1>5, <1>6 DEF WholeOrFed, Feeding, uploadVars
<1>16. StreamsSound'
  <2>1. \A q \in Paths : active[q] # 0 => active[q] \in Sessions
    BY RecordingAssumption DEF RecordingRows, Sessions
  <2>2. ending \subseteq Sessions
    BY DEF RecordingRows
  <2> QED BY <1>1, <1>3, <1>5, <1>6, <1>9, <2>1, <2>2 DEF StreamsSound
<1> QED BY <1>10, <1>11, <1>12, <1>14, <1>15, <1>16
\* A task moves its own session only: it begins, stores one frame, comes to the end, fails or ends.
LEMMA FeedMoves ==
  ASSUME RecordingInv, NEW r \in Reqs, FeedGet(r) \/ FeedFrame(r) \/ FeedFails(r) \/ FeedEnd(r)
  PROVE  RecordingInv'
<1> USE DEF RecordingInv
<1> DEFINE s == feeds[r].sid
<1>1. feeds[r] \in FeedRows /\ feeds[r].pc # "none" /\ s \in Sessions /\ rows[s] \in SessionRows
  BY DEF FeedGet, FeedFrame, FeedFails, FeedEnd, FeedsSound, RecordingRows
<1>2. Holds(s) /\ rows[s].rec \in Recs
  BY <1>1 DEF FeedsSound
<1>3. UNCHANGED <<kept, answers, reqs, streamVars>>
  BY DEF FeedGet, FeedFrame, FeedFails, FeedEnd
<1>4. /\ feeds[r].pc \in {"get", "feed"} => rows[s].stored = feeds[r].at
      /\ feeds[r].pc = "end" => rows[s].cut \/ rows[s].stored = Total
  BY <1>1 DEF FeedsSound, Feeds
<1>5. PICK row \in SessionRows, feed \in FeedRows :
        /\ rows' = [rows EXCEPT ![s] = row] /\ feeds' = [feeds EXCEPT ![r] = feed]
        /\ row.status # "none" /\ row.rec = rows[s].rec /\ (rows[s].cut => row.cut)
        /\ feed.pc # "none" => feed.sid = s
        /\ feed.pc \in {"get", "feed"} => row.stored = feed.at
        /\ feed.pc = "end" => row.cut \/ row.stored = Total
        /\ row.cut \/ row.stored = Total \/ (feed.pc = "feed" /\ row.status = "live")
  <2>1. CASE FeedGet(r)
    <3> DEFINE row == [rows[s] EXCEPT !.uploading = TRUE]
               feed == [feeds[r] EXCEPT !.pc = "feed"]
    <3>1. /\ row \in SessionRows /\ row.status = rows[s].status /\ row.rec = rows[s].rec /\ row.cut = rows[s].cut
          /\ row.stored = rows[s].stored
      BY <1>1 DEF SessionRows
    <3>2. feed \in FeedRows /\ feed.pc = "feed" /\ feed.sid = s /\ feed.at = feeds[r].at
      BY <1>1 DEF FeedRows
    <3>3. rows' = [rows EXCEPT ![s] = row] /\ feeds' = [feeds EXCEPT ![r] = feed] /\ feeds[r].pc = "get"
      BY <1>1, <2>1 DEF FeedGet, FeedRows, SessionRows, RecordingRows
    <3>4. rows[s].status \in {"none", "live", "ended"}
      BY <1>1 DEF SessionRows
    <3> HIDE DEF row, feed
    <3>5. row.cut \/ row.stored = Total \/ row.status = "live"
      BY <1>1, <1>2, <3>1 DEF WholeOrFed
    <3> QED BY <1>2, <1>4, <3>1, <3>2, <3>3, <3>5 DEF Holds
  <2>2. CASE FeedFrame(r)
    <3>1. CASE s \in Live /\ feeds[r].at < Total
      <4> DEFINE row == [rows[s] EXCEPT !.stored = @ + 1]
                 feed == [feeds[r] EXCEPT !.at = @ + 1]
      <4>1. feeds[r].pc = "feed" /\ rows[s].stored = feeds[r].at /\ rows[s].status = "live"
        BY <1>4, <2>2, <3>1 DEF FeedFrame, Live
      <4>2. feeds[r].at + 1 \in 0..Total
        BY <1>1, <3>1, RecordingAssumption DEF FeedRows
      <4>3. /\ row \in SessionRows /\ row.status = rows[s].status /\ row.rec = rows[s].rec /\ row.cut = rows[s].cut
            /\ row.stored = feeds[r].at + 1
        BY <1>1, <4>1, <4>2 DEF SessionRows
      <4>4. feed \in FeedRows /\ feed.pc = "feed" /\ feed.sid = s /\ feed.at = feeds[r].at + 1
        BY <1>1, <4>1, <4>2 DEF FeedRows
      <4>5. rows' = [rows EXCEPT ![s] = row] /\ feeds' = [feeds EXCEPT ![r] = feed]
        BY <1>1, <2>2, <3>1 DEF FeedFrame, FeedRows, SessionRows, RecordingRows
      <4> HIDE DEF row, feed
      <4> QED BY <4>1, <4>3, <4>4, <4>5
    <3>2. CASE ~(s \in Live /\ feeds[r].at < Total)
      <4> DEFINE row == [rows[s] EXCEPT !.uploading = FALSE]
                 feed == [feeds[r] EXCEPT !.pc = "end"]
      <4>1. feeds[r].pc = "feed" /\ rows[s].stored = feeds[r].at
        BY <1>4, <2>2 DEF FeedFrame
      <4>2. /\ row \in SessionRows /\ row.status = rows[s].status /\ row.rec = rows[s].rec /\ row.cut = rows[s].cut
            /\ row.stored = rows[s].stored
        BY <1>1 DEF SessionRows
      <4>3. feed \in FeedRows /\ feed.pc = "end" /\ feed.sid = s
        BY <1>1 DEF FeedRows
      <4>4. rows' = [rows EXCEPT ![s] = row] /\ feeds' = [feeds EXCEPT ![r] = feed]
        BY <1>1, <2>2, <3>2 DEF FeedFrame, FeedRows, SessionRows, RecordingRows
      <4>5. rows[s].cut \/ rows[s].stored = Total
        <5>1. CASE s \in Live
          BY <1>1, <3>2, <4>1, <5>1, RecordingAssumption DEF FeedRows
        <5>2. CASE s \notin Live
          BY <1>1, <1>2, <5>2 DEF Live, WholeOrFed
        <5> QED BY <5>1, <5>2
      <4> HIDE DEF row, feed
      <4> QED BY <1>2, <4>2, <4>3, <4>4, <4>5 DEF Holds
    <3> QED BY <3>1, <3>2
  <2>3. CASE FeedFails(r)
    <3> DEFINE row == [rows[s] EXCEPT !.uploading = FALSE, !.cut = TRUE]
               feed == [feeds[r] EXCEPT !.pc = "end"]
    <3>1. row \in SessionRows /\ row.status = rows[s].status /\ row.rec = rows[s].rec /\ row.cut
      BY <1>1 DEF SessionRows
    <3>2. feed \in FeedRows /\ feed.pc = "end" /\ feed.sid = s
      BY <1>1 DEF FeedRows
    <3>3. rows' = [rows EXCEPT ![s] = row] /\ feeds' = [feeds EXCEPT ![r] = feed]
      BY <1>1, <2>3 DEF FeedFails, FeedRows, SessionRows, RecordingRows
    <3> HIDE DEF row, feed
    <3> QED BY <1>2, <3>1, <3>2, <3>3 DEF Holds
  <2>4. CASE FeedEnd(r)
    <3> DEFINE row == [rows[s] EXCEPT !.status = "ended"]
    <3>1. /\ row \in SessionRows /\ row.status = "ended" /\ row.rec = rows[s].rec /\ row.cut = rows[s].cut
          /\ row.stored = rows[s].stored
      BY <1>1 DEF SessionRows
    <3>2. NoFeed \in FeedRows /\ NoFeed.pc = "none"
      BY RecordingAssumption DEF NoFeed, FeedRows
    <3>3. rows' = [rows EXCEPT ![s] = row] /\ feeds' = [feeds EXCEPT ![r] = NoFeed] /\ feeds[r].pc = "end"
      BY <1>1, <2>4 DEF FeedEnd, FeedRows, SessionRows, RecordingRows
    <3> HIDE DEF row
    <3> QED BY <1>4, <3>1, <3>2, <3>3
  <2> QED BY <2>1, <2>2, <2>3, <2>4
<1>6. /\ \A t \in Sessions : rows'[t] = IF t = s THEN row ELSE rows[t]
      /\ \A q \in Reqs : feeds'[q] = IF q = r THEN feed ELSE feeds[q]
  BY <1>5 DEF RecordingRows
<1>7. \A t \in Sessions : (Holds(t)' <=> Holds(t)) /\ rows'[t].rec = rows[t].rec
  BY <1>2, <1>5, <1>6 DEF Holds
<1>8. \A q \in Reqs : q # r => ~Feeds(q, s)
  BY <1>1 DEF FeedsSound, Feeds
<1>9. \A q \in Reqs : \A t \in Sessions : Feeds(q, t)' => Feeds(q, t)
  BY <1>1, <1>5, <1>6 DEF Feeds
<1>10. RecordingRows'
  BY <1>3, <1>5 DEF RecordingRows, streamVars
<1>11. OneSession' /\ ReqsSound'
  BY <1>1, <1>3, <1>6, <1>7 DEF OneSession, ReqsSound
<1>12. AnswersSound'
  <2>1. \A rec \in Recs : answers[rec] \subseteq Sessions
    BY DEF RecordingRows
  <2> QED BY <1>3, <1>7, <2>1 DEF AnswersSound
<1>13. FeedsSound'
  <2>1. \A q \in Reqs : feeds'[q].pc # "none" =>
          feeds'[q].sid \in Sessions /\ rows'[feeds'[q].sid].status # "none" /\ rows'[feeds'[q].sid].rec \in Recs
    BY <1>1, <1>2, <1>5, <1>6 DEF FeedsSound, Holds
  <2>2. \A p, q \in Reqs : \A t \in Sessions : Feeds(p, t)' /\ Feeds(q, t)' => p = q
    BY <1>9 DEF FeedsSound
  <2>3. \A q \in Reqs : \A t \in Sessions : Feeds(q, t)' /\ feeds'[q].pc \in {"get", "feed"} => rows'[t].stored = feeds'[q].at
    BY <1>5, <1>6, <1>8, <1>9 DEF FeedsSound, Feeds
  <2>4. \A q \in Reqs : \A t \in Sessions : Feeds(q, t)' /\ feeds'[q].pc = "end" => rows'[t].cut \/ rows'[t].stored = Total
    BY <1>5, <1>6, <1>8, <1>9 DEF FeedsSound, Feeds
  <2> QED BY <2>1, <2>2, <2>3, <2>4 DEF FeedsSound, Holds
<1>14. WholeOrFed'
  <2>1. \A t \in Sessions : t # s /\ Feeding(t) => Feeding(t)'
    BY <1>6 DEF Feeding
  <2>2. feed.pc = "feed" => Feeding(s)'
    BY <1>5, <1>6 DEF Feeding
  <2> QED BY <1>5, <1>6, <1>7, <2>1, <2>2 DEF WholeOrFed
<1>15. StreamsSound'
  <2>1. UNCHANGED <<active, ending>>
    BY <1>3 DEF streamVars
  <2> QED BY <1>7, <2>1, StreamsStand
<1> QED BY <1>10, <1>11, <1>12, <1>13, <1>14, <1>15

\* The streams that have been away for the grace are ended by tasks of their own.
LEMMA StreamsEnd ==
  ASSUME RecordingInv, EndTick
  PROVE  RecordingInv'
<1> USE DEF RecordingInv
<1>1. UNCHANGED <<uploadVars, rows, onAir, keys>>
  BY DEF EndTick
<1>2. active' \in [Paths -> 0..MaxSessions] /\ \A p \in Paths : active'[p] \in {0, active[p]}
  BY RecordingAssumption DEF EndTick, RecordingRows
<1>3. missed' \in [Paths -> 0..Grace]
  <2>1. ASSUME NEW p \in Paths
        PROVE  (IF active[p] # 0 /\ tick.listed[p] = "off" /\ ~Over(p) THEN missed[p] + 1
                ELSE IF Over(p) THEN 0 ELSE missed[p]) \in 0..Grace
    BY RecordingAssumption DEF Over, RecordingRows
  <2> QED BY <2>1 DEF EndTick
<1>4. NoTick \in TickRows
  BY DEF NoTick, TickRows, Tracks
<1>5. \A t \in ending' : t \in ending \/ \E p \in Paths : active[p] # 0 /\ t = active[p]
  BY DEF EndTick, Over
<1>6. \A p \in Paths : active[p] # 0 => active[p] \in Sessions
  BY RecordingAssumption DEF RecordingRows, Sessions
<1>7. RecordingRows'
  BY <1>1, <1>2, <1>3, <1>4, <1>5, <1>6 DEF RecordingRows, uploadVars, EndTick
<1>8. StreamsSound'
  BY <1>1, <1>2, <1>5 DEF StreamsSound, Holds
<1>9. ReqsSound' /\ AnswersSound'
  BY <1>1 DEF ReqsSound, AnswersSound, Holds, uploadVars
<1> QED BY <1>1, <1>7, <1>8, <1>9, RowsStand DEF uploadVars

\* A restart cuts short what was being fed; the sessions stay as they are.
LEMMA Restarting ==
  ASSUME RecordingInv, Restart
  PROVE  RecordingInv'
<1> USE DEF RecordingInv
<1>1. UNCHANGED <<kept, answers, onAir, keys>>
  BY DEF Restart
<1>2. \A t \in Sessions :
        rows'[t] = IF Feeding(t) THEN [rows[t] EXCEPT !.uploading = FALSE, !.cut = TRUE] ELSE rows[t]
  BY DEF Restart
<1>3. \A t \in Sessions : rows[t] \in SessionRows
  BY DEF RecordingRows
<1>4. \A t \in Sessions :
        /\ rows'[t] \in SessionRows /\ rows'[t].status = rows[t].status /\ rows'[t].rec = rows[t].rec
        /\ rows'[t].stored = rows[t].stored /\ (rows[t].cut \/ Feeding(t) => rows'[t].cut)
  <2> SUFFICES ASSUME NEW t \in Sessions
               PROVE  /\ rows'[t] \in SessionRows /\ rows'[t].status = rows[t].status /\ rows'[t].rec = rows[t].rec
                      /\ rows'[t].stored = rows[t].stored /\ (rows[t].cut \/ Feeding(t) => rows'[t].cut)
    OBVIOUS
  <2>1. PICK x : x = rows[t]
    OBVIOUS
  <2>2. x \in SessionRows
    BY <1>3, <2>1
  <2>3. PICK y : y = [x EXCEPT !.uploading = FALSE, !.cut = TRUE]
    OBVIOUS
  <2>4. y \in SessionRows /\ y.status = x.status /\ y.rec = x.rec /\ y.stored = x.stored /\ y.cut
    BY ONLY <2>2, <2>3 DEF SessionRows
  <2>5. CASE Feeding(t)
    <3>1. rows'[t] = y
      BY <1>2, <2>1, <2>3, <2>5
    <3> QED BY <2>1, <2>4, <3>1
  <2>6. CASE ~Feeding(t)
    <3>1. rows'[t] = x
      BY <1>2, <2>1, <2>6
    <3> QED BY <2>1, <2>2, <2>6, <3>1
  <2> QED BY <2>5, <2>6
<1>5. rows' \in [Sessions -> SessionRows]
  <2>1. rows' = [t \in Sessions |-> rows'[t]]
    BY DEF Restart
  <2> QED BY <1>4, <2>1
<1>6. /\ reqs' = [r \in Reqs |-> NoReq] /\ feeds' = [r \in Reqs |-> NoFeed] /\ ending' = {}
      /\ active' = [p \in Paths |-> 0] /\ missed' = [p \in Paths |-> 0] /\ tick' = NoTick
  BY DEF Restart
<1>7. RecordingRows'
  <2>1. NoReq \in ReqRows /\ NoFeed \in FeedRows /\ NoTick \in TickRows /\ 0 \in 0..Grace /\ 0 \in 0..MaxSessions
    BY RecordingAssumption DEF NoReq, ReqRows, NoFeed, FeedRows, NoTick, TickRows, Tracks
  <2> QED BY <1>1, <1>5, <1>6, <2>1 DEF RecordingRows
<1>8. ReqsSound' /\ FeedsSound' /\ StreamsSound'
  BY <1>6 DEF ReqsSound, FeedsSound, Feeds, StreamsSound, NoReq, NoFeed
<1>9. \A t \in Sessions : Holds(t)' <=> Holds(t)
  BY <1>4 DEF Holds
<1>10. OneSession' /\ WholeOrFed'
  BY <1>4, <1>9 DEF OneSession, WholeOrFed
<1>11. AnswersSound'
  <2>1. \A rec \in Recs : answers[rec] \subseteq Sessions
    BY DEF RecordingRows
  <2> QED BY <1>1, <1>4, <1>9, <2>1 DEF AnswersSound
<1> QED BY <1>7, <1>8, <1>10, <1>11

\* Every step keeps the invariant.
LEMMA RecordingStep ==
  ASSUME RecordingInv, [RecordingNext]_recordingVars
  PROVE  RecordingInv'
<1>1. CASE UNCHANGED recordingVars
  BY <1>1 DEF recordingVars, uploadVars, streamVars, RecordingInv, RecordingRows, ReqsSound, OneSession,
     AnswersSound, FeedsSound, Feeds, WholeOrFed, Feeding, StreamsSound, Holds
<1>2. ASSUME NEW r \in Reqs, UploadStep(r) \/ \E rec \in Recs : UploadRecording(r, rec) PROVE RecordingInv'
  BY <1>2, Uploading, Inserting, FeedMoves DEF UploadStep
<1>3. CASE TickStep
  BY <1>3, Polling, StreamsEnd, StreamStarts DEF TickStep
<1>4. ASSUME NEW p \in Paths, Publish(p) \/ Drop(p) \/ RevokeKey(p) \/ StartFails(p) PROVE RecordingInv'
  BY <1>4, Polling, StreamStarts
<1>5. ASSUME NEW s \in Sessions, OwnerEnds(s) \/ CheckOnce(s) \/ Finish(s) PROVE RecordingInv'
  BY <1>5, SessionEnds
<1>6. CASE Restart
  BY <1>6, Restarting
<1> QED BY <1>1, <1>2, <1>3, <1>4, <1>5, <1>6 DEF RecordingNext

\* However often and however concurrently a recording is sent, every 202 names the same session,
\* and a session that nothing cut short ends only once it holds the whole recording: the watchdog
\* leaves an upload alone however long it waits (api/sessions.py, ingest/upload.py).
THEOREM UploadedOnceWhole == RecordingInit /\ [][RecordingNext]_recordingVars => []UploadOnceWhole
<1>1. RecordingInit => RecordingInv
  BY RecordingInitInv
<1>2. RecordingInv /\ [RecordingNext]_recordingVars => RecordingInv'
  BY RecordingStep
<1>3. RecordingInv => UploadOnceWhole
  BY RecordingInvSays
<1> QED BY <1>1, <1>2, <1>3, PTL

-----------------------------------------------------------------------------
(* Backups: the invariant *)

LiveRows == [row : BOOLEAN, chunks : 0..MaxLen, size : 0..MaxLen, expired : BOOLEAN]
DumpRows == [made : BOOLEAN, row : BOOLEAN, chunks : 0..MaxLen]
Entries == [listed : BOOLEAN, size : 0..MaxLen]
ManifestRows == [there : BOOLEAN, entry : Entries]
TargetRows == [row : BOOLEAN, chunks : 0..MaxLen, file : BOOLEAN, size : 0..MaxLen, staged : BOOLEAN]
RestoreRows == [pc : {"idle", "verify", "write", "clear", "replace", "done", "refused", "error"}, from : 0..MaxNow,
                entry : Entries, rows : DumpRows, force : BOOLEAN, before : TargetRows]

BackupRows ==
  /\ now \in 0..MaxNow /\ {last, told, restore.from} \subseteq 0..now
  /\ job \in [pc : {"idle", "dump", "manifest", "record", "prune"}, stamp : 0..now]
  /\ live \in LiveRows /\ dumps \in [Stamps -> DumpRows] /\ manifests \in [Stamps -> ManifestRows]
  /\ copy \in [size : 0..MaxLen, same : BOOLEAN] /\ target \in TargetRows /\ restore \in RestoreRows

\* The recording is as long as its rows say until it expires, and then it is gone.
LiveSound == IF live.expired THEN live.size = 0 ELSE live.chunks <= live.size
\* Nothing in the backups is younger than the job's stamp, and the last success is no younger.
NoneYounger ==
  /\ \A s \in Stamps : dumps[s].made \/ manifests[s].there => s <= job.stamp
  /\ last <= job.stamp
\* What the job has made so far.
JobSound ==
  /\ job.pc # "idle" => job.stamp \in Stamps
  /\ job.pc \in {"dump", "manifest"} => last < job.stamp /\ ~manifests[job.stamp].there
  /\ job.pc = "manifest" =>
       dumps[job.stamp].made /\ (live.expired \/ dumps[job.stamp].chunks <= live.size)
  /\ job.pc \in {"record", "prune"} => dumps[job.stamp].made /\ manifests[job.stamp].there
  /\ job.pc = "prune" => last = job.stamp
\* A manifest lists the recording at least as long as the rows of its dump say.
PairsAgree ==
  \A s \in Stamps : dumps[s].made /\ manifests[s].there /\ manifests[s].entry.listed =>
    dumps[s].chunks <= manifests[s].entry.size
\* What a restore has read agrees, and what it has done so far.
RestoreSound ==
  /\ restore.pc # "idle" /\ restore.entry.listed => restore.rows.chunks <= restore.entry.size
  /\ restore.pc \in {"write", "clear", "replace", "done"} => Verified(restore.entry)
  /\ restore.pc \in {"clear", "replace", "done"} => target.chunks = restore.rows.chunks
  /\ restore.pc \in {"verify", "write", "refused"} => target = restore.before
  /\ restore.pc = "done" /\ restore.entry.listed => target.file /\ target.size = copy.size

BackupInv ==
  /\ BackupRows /\ LiveSound /\ NoneYounger /\ LastSuccessWhole /\ JobSound /\ PairsAgree /\ RestoreSound

-----------------------------------------------------------------------------
(* Backups: the proof *)

\* The invariant holds where everything begins.
LEMMA BackupInitInv == BackupInit => BackupInv
<1> SUFFICES ASSUME BackupInit PROVE BackupInv
  OBVIOUS
<1>1. {MaxNow, MaxLen} \subseteq Nat /\ 0 \in 0..MaxLen /\ MaxLen \in 0..MaxLen /\ 0 \in 0..MaxNow /\ 0 \in 0..0
  BY BackupAssumption
<1>2. /\ Absent \in DumpRows /\ NoEntry \in Entries /\ NoManifest \in ManifestRows /\ NoTarget \in TargetRows
      /\ NoCopy \in [size : 0..MaxLen, same : BOOLEAN]
      /\ [NoTarget EXCEPT !.row = TRUE, !.file = TRUE, !.size = MaxLen, !.chunks = MaxLen] \in TargetRows
  BY <1>1 DEF Absent, DumpRows, NoEntry, Entries, NoManifest, ManifestRows, NoTarget, TargetRows, NoCopy
<1>3. NoRestore \in RestoreRows /\ NoRestore.pc = "idle" /\ NoRestore.from = 0
  BY <1>1, <1>2 DEF NoRestore, RestoreRows
<1>4. /\ NoJob \in [pc : {"idle", "dump", "manifest", "record", "prune"}, stamp : 0..0]
      /\ [row |-> TRUE, chunks |-> 0, size |-> 0, expired |-> FALSE] \in LiveRows
  BY <1>1 DEF NoJob, LiveRows
<1>5. BackupRows
  BY <1>1, <1>2, <1>3, <1>4 DEF BackupInit, BackupRows
<1>6. LiveSound /\ NoneYounger /\ LastSuccessWhole /\ JobSound /\ PairsAgree
  BY DEF BackupInit, LiveSound, NoneYounger, LastSuccessWhole, JobSound, PairsAgree, Absent, NoManifest, NoJob
<1>7. RestoreSound
  BY <1>3 DEF BackupInit, RestoreSound
<1> QED BY <1>5, <1>6, <1>7 DEF BackupInv

\* What the invariant says is what a backup promises.
LEMMA BackupInvSays == BackupInv => BackupsSound
<1> SUFFICES ASSUME BackupInv PROVE BackupsSound
  OBVIOUS
<1> USE DEF BackupInv
<1>1. BackupTypeOK
  <2>1. job.pc \in {"idle", "dump", "manifest", "record", "prune"} /\ job.stamp \in 0..now
    BY DEF BackupRows
  <2>2. restore.pc \in {"idle", "verify", "write", "clear", "replace", "done", "refused", "error"}
    BY DEF BackupRows, RestoreRows
  <2> QED BY <2>1, <2>2 DEF BackupRows, BackupTypeOK, LiveRows, DumpRows, ManifestRows, Entries, TargetRows
<1>2. RestoreWhole
  <2>1. ASSUME restore.pc = "done", restore.entry.listed PROVE target.file /\ target.size >= target.chunks
    <3>1. copy.size >= restore.entry.size
      BY <2>1 DEF RestoreSound, Verified
    <3>2. restore.rows.chunks <= restore.entry.size /\ target.chunks = restore.rows.chunks
      BY <2>1 DEF RestoreSound
    <3>3. copy.size \in Nat /\ restore.entry.size \in Nat /\ restore.rows.chunks \in Nat
      BY BackupAssumption DEF BackupRows, RestoreRows, Entries, DumpRows
    <3> QED BY <2>1, <3>1, <3>2, <3>3 DEF RestoreSound
  <2> QED BY <2>1 DEF RestoreWhole, RestoreSound
<1> QED BY <1>1, <1>2 DEF BackupsSound

\* The server records, expires and purges the session while the job runs.
LEMMA SessionLives ==
  ASSUME BackupInv, Record \/ PurgeExpiredAudio \/ PurgeOne
  PROVE  BackupInv'
<1> USE DEF BackupInv
<1>1. UNCHANGED <<now, jobVars, told, restoreVars>>
  BY DEF Record, PurgeExpiredAudio, PurgeOne
<1>2. live \in LiveRows /\ MaxLen \in Nat
  BY BackupAssumption DEF BackupRows
<1>3. /\ live' \in LiveRows /\ LiveSound'
      /\ live'.expired \/ (~live.expired /\ live.size <= live'.size)
  <2>1. CASE Record
    <3>1. CASE live.size < MaxLen /\ live' = [live EXCEPT !.size = @ + 1]
      BY <1>2, <2>1, <3>1 DEF Record, LiveRows, LiveSound
    <3>2. CASE live.chunks < live.size /\ live' = [live EXCEPT !.chunks = @ + 1]
      BY <1>2, <2>1, <3>2 DEF Record, LiveRows, LiveSound
    <3> QED BY <2>1, <3>1, <3>2 DEF Record
  <2>2. CASE PurgeExpiredAudio
    <3>1. live' = [live EXCEPT !.expired = TRUE, !.size = 0] /\ 0 \in 0..MaxLen
      BY <1>2, <2>2 DEF PurgeExpiredAudio
    <3>2. live' \in LiveRows /\ live'.expired = TRUE /\ live'.size = 0
      BY <1>2, <3>1 DEF LiveRows
    <3> QED BY <3>2 DEF LiveSound
  <2>3. CASE PurgeOne
    <3>1. live' = [live EXCEPT !.row = FALSE, !.chunks = 0, !.expired = TRUE, !.size = 0] /\ 0 \in 0..MaxLen
      BY <1>2, <2>3 DEF PurgeOne
    <3>2. live' \in LiveRows /\ live'.expired = TRUE /\ live'.size = 0
      BY <1>2, <3>1 DEF LiveRows
    <3> QED BY <3>2 DEF LiveSound
  <2> QED BY <2>1, <2>2, <2>3
<1>4. BackupRows'
  BY <1>1, <1>3 DEF BackupRows, jobVars, restoreVars
<1>5. JobSound'
  <2>1. ASSUME job.pc = "manifest" PROVE live'.expired \/ dumps[job.stamp].chunks <= live'.size
    <3>1. dumps[job.stamp].chunks \in Nat /\ live.size \in Nat /\ live'.size \in Nat
      BY <1>2, <1>3, <2>1 DEF JobSound, BackupRows, DumpRows, LiveRows
    <3> QED BY <1>3, <2>1, <3>1 DEF JobSound
  <2> QED BY <1>1, <2>1 DEF JobSound, jobVars
<1> QED BY <1>1, <1>3, <1>4, <1>5
     DEF NoneYounger, LastSuccessWhole, PairsAgree, RestoreSound, Verified, jobVars, restoreVars

\* Time passes, and somebody is told.
LEMMA MomentPasses ==
  ASSUME BackupInv, Tick \/ CheckBackup
  PROVE  BackupInv'
<1> USE DEF BackupInv
<1>1. UNCHANGED <<live, jobVars, restoreVars>>
  BY DEF Tick, CheckBackup
<1>2. now' \in 0..MaxNow /\ now <= now' /\ told' \in 0..now' /\ now \in Nat
  BY BackupAssumption DEF Tick, CheckBackup, BackupRows
<1>3. {last, restore.from, job.stamp} \subseteq 0..now'
  BY <1>2 DEF BackupRows
<1>4. BackupRows'
  <2>1. job \in [pc : {"idle", "dump", "manifest", "record", "prune"}, stamp : 0..now']
    BY <1>3 DEF BackupRows
  <2> QED BY <1>1, <1>2, <1>3, <2>1 DEF BackupRows, jobVars, restoreVars
<1> QED BY <1>1, <1>4
     DEF LiveSound, NoneYounger, JobSound, LastSuccessWhole, PairsAgree, RestoreSound, Verified, jobVars, restoreVars
\* The newest dump is kept: pruning removes neither the job's dump nor its manifest.
LEMMA Pruning ==
  ASSUME BackupInv, job.pc = "prune", NEW stop \in Nat, PruneTo(stop)
  PROVE  /\ dumps' \in [Stamps -> DumpRows] /\ manifests' \in [Stamps -> ManifestRows]
         /\ \A s \in Stamps : (dumps'[s] = dumps[s] \/ ~dumps'[s].made)
                              /\ (manifests'[s] = manifests[s] \/ ~manifests'[s].there)
         /\ dumps'[job.stamp] = dumps[job.stamp] /\ manifests'[job.stamp] = manifests[job.stamp]
<1> USE DEF BackupInv
<1> DEFINE stamps == {s \in Stamps : dumps[s].made}
           gone == stamps \ Keep(stamps)
<1>1. Absent \in DumpRows /\ ~Absent.made /\ NoManifest \in ManifestRows /\ ~NoManifest.there
  BY BackupAssumption DEF Absent, DumpRows, NoManifest, NoEntry, ManifestRows, Entries
<1>2. job.stamp \in stamps /\ \A t \in stamps : t <= job.stamp
  BY DEF JobSound, NoneYounger
<1>3. job.stamp \notin gone
  <2> HIDE DEF stamps
  <2>1. job.stamp \in Keep(stamps)
    BY <1>2 DEF Keep
  <2> QED BY <2>1
<1>4. /\ dumps' = [s \in Stamps |-> IF s \in gone /\ s >= stop THEN Absent ELSE dumps[s]]
      /\ manifests' = [s \in Stamps |-> IF s \in gone /\ s > stop THEN NoManifest ELSE manifests[s]]
  BY DEF PruneTo
<1>5. job.stamp \in Stamps
  BY DEF JobSound
<1> HIDE DEF gone
<1> QED BY <1>1, <1>3, <1>4, <1>5 DEF BackupRows

\* A stage of the job: begun at a stamp younger than every other, dumped, listed, recorded, pruned,
\* or given up.
LEMMA JobMoves ==
  ASSUME BackupInv,
         RunBackup \/ PgDump \/ BuildManifest \/ WriteLastSuccess \/ Prune \/ BackupFails \/ JobKilled
  PROVE  BackupInv'
<1> USE DEF BackupInv
<1> DEFINE JobRows == [pc : {"idle", "dump", "manifest", "record", "prune"}, stamp : 0..now]
<1>1. UNCHANGED <<now, live, restoreVars>>
  BY DEF RunBackup, PgDump, BuildManifest, WriteLastSuccess, Prune, BackupFails, JobKilled
<1>2. job \in JobRows /\ now \in Nat /\ Stamps \subseteq Nat /\ MaxNow \in Nat
  BY BackupAssumption DEF BackupRows, Stamps
<1>3. \A pc \in {"idle", "dump", "manifest", "record", "prune"} :
        LET next == [job EXCEPT !.pc = pc] IN next \in JobRows /\ next.pc = pc /\ next.stamp = job.stamp
  BY <1>2
<1> DEFINE Frame == last' \in 0..now /\ told' \in 0..now /\ job' \in JobRows
                    /\ dumps' \in [Stamps -> DumpRows] /\ manifests' \in [Stamps -> ManifestRows]
<1>4. ASSUME Frame PROVE BackupRows'
  BY <1>1, <1>4 DEF BackupRows, restoreVars
<1>5. LiveSound' /\ RestoreSound'
  BY <1>1 DEF LiveSound, RestoreSound, Verified, restoreVars
<1>6. last \in 0..now /\ told \in 0..now /\ dumps \in [Stamps -> DumpRows] /\ manifests \in [Stamps -> ManifestRows]
  BY DEF BackupRows
<1>7. CASE RunBackup
  <2>1. job' = [pc |-> "dump", stamp |-> now] /\ job.stamp < now /\ now \in Stamps /\ UNCHANGED <<dumps, manifests, last, told>>
    BY <1>2, <1>7 DEF RunBackup, Stamps, BackupRows
  <2>2. Frame
    BY <1>2, <1>6, <2>1
  <2>3. NoneYounger' /\ JobSound'
    BY <1>2, <1>6, <2>1 DEF NoneYounger, JobSound
  <2>4. LastSuccessWhole' /\ PairsAgree'
    BY <2>1 DEF LastSuccessWhole, PairsAgree
  <2> QED BY <1>4, <1>5, <2>2, <2>3, <2>4
<1>8. CASE PgDump
  <2> DEFINE dump == [made |-> TRUE, row |-> live.row, chunks |-> live.chunks]
  <2>1. /\ dumps' = [dumps EXCEPT ![job.stamp] = dump] /\ job' = [job EXCEPT !.pc = "manifest"]
        /\ job.pc = "dump" /\ UNCHANGED <<manifests, last, told>>
    BY <1>8 DEF PgDump
  <2>2. dump \in DumpRows /\ dump.made /\ dump.chunks = live.chunks
    BY DEF DumpRows, BackupRows, LiveRows
  <2>3. job.stamp \in Stamps /\ last < job.stamp /\ ~manifests[job.stamp].there
    BY <2>1 DEF JobSound
  <2>4. job' \in JobRows /\ job'.pc = "manifest" /\ job'.stamp = job.stamp
    BY <1>3, <2>1
  <2> HIDE DEF dump
  <2>5. \A s \in Stamps : dumps'[s] = IF s = job.stamp THEN dump ELSE dumps[s]
    BY <1>6, <2>1
  <2>6. Frame
    BY <1>6, <2>1, <2>2, <2>4
  <2>7. NoneYounger'
    BY <1>2, <2>1, <2>3, <2>4, <2>5 DEF NoneYounger
  <2>8. JobSound'
    BY <2>1, <2>2, <2>3, <2>4, <2>5, <1>1 DEF JobSound, LiveSound
  <2>9. LastSuccessWhole'
    BY <1>2, <1>6, <2>1, <2>2, <2>5 DEF LastSuccessWhole, BackupRows, Stamps
  <2>10. PairsAgree'
    BY <2>1, <2>3, <2>5 DEF PairsAgree
  <2> QED BY <1>4, <1>5, <2>6, <2>7, <2>8, <2>9, <2>10
<1>9. CASE BuildManifest
  <2> DEFINE manifest == [there |-> TRUE, entry |-> Entry]
  <2>1. /\ manifests' = [manifests EXCEPT ![job.stamp] = manifest] /\ job' = [job EXCEPT !.pc = "record"]
        /\ job.pc = "manifest" /\ UNCHANGED <<dumps, last, told>>
    BY <1>9 DEF BuildManifest
  <2>2. /\ manifest \in ManifestRows /\ manifest.there /\ manifest.entry.size = live.size
        /\ manifest.entry.listed = (live.size > 0)
    BY DEF ManifestRows, Entries, Entry, BackupRows, LiveRows
  <2>3. /\ job.stamp \in Stamps /\ last < job.stamp /\ dumps[job.stamp].made
        /\ live.expired \/ dumps[job.stamp].chunks <= live.size
    BY <2>1 DEF JobSound
  <2>4. job' \in JobRows /\ job'.pc = "record" /\ job'.stamp = job.stamp
    BY <1>3, <2>1
  <2> HIDE DEF manifest
  <2>5. \A s \in Stamps : manifests'[s] = IF s = job.stamp THEN manifest ELSE manifests[s]
    BY <1>6, <2>1
  <2>6. Frame
    BY <1>6, <2>1, <2>2, <2>4
  <2>7. NoneYounger'
    BY <1>2, <2>1, <2>3, <2>4, <2>5 DEF NoneYounger
  <2>8. JobSound'
    BY <2>1, <2>2, <2>3, <2>4, <2>5 DEF JobSound
  <2>9. LastSuccessWhole'
    BY <1>2, <1>6, <2>1, <2>2, <2>5 DEF LastSuccessWhole, BackupRows, Stamps
  <2>10. PairsAgree'
    <3>1. live.size > 0 => dumps[job.stamp].chunks <= live.size
      BY <2>3, BackupAssumption DEF LiveSound
    <3> QED BY <2>1, <2>2, <2>5, <3>1 DEF PairsAgree
  <2> QED BY <1>4, <1>5, <2>6, <2>7, <2>8, <2>9, <2>10
<1>10. CASE WriteLastSuccess
  <2>1. /\ last' = job.stamp /\ job' = [job EXCEPT !.pc = "prune"] /\ job.pc = "record"
        /\ UNCHANGED <<dumps, manifests, told>>
    BY <1>10 DEF WriteLastSuccess
  <2>2. job.stamp \in Stamps /\ dumps[job.stamp].made /\ manifests[job.stamp].there
    BY <2>1 DEF JobSound
  <2>3. job' \in JobRows /\ job'.pc = "prune" /\ job'.stamp = job.stamp
    BY <1>3, <2>1
  <2>4. Frame
    BY <1>2, <1>6, <2>1, <2>3
  <2>5. NoneYounger' /\ LastSuccessWhole' /\ PairsAgree'
    BY <1>2, <2>1, <2>2, <2>3 DEF NoneYounger, LastSuccessWhole, PairsAgree
  <2>6. JobSound'
    BY <2>1, <2>2, <2>3 DEF JobSound
  <2> QED BY <1>4, <1>5, <2>4, <2>5, <2>6
<1>11. ASSUME job.pc = "prune", NEW stop \in Nat, PruneTo(stop), job' = [job EXCEPT !.pc = "idle"], last' = last,
              told' \in 0..now
       PROVE  BackupInv'
  <2>1. /\ dumps' \in [Stamps -> DumpRows] /\ manifests' \in [Stamps -> ManifestRows]
        /\ \A s \in Stamps : (dumps'[s] = dumps[s] \/ ~dumps'[s].made)
                             /\ (manifests'[s] = manifests[s] \/ ~manifests'[s].there)
        /\ dumps'[job.stamp] = dumps[job.stamp] /\ manifests'[job.stamp] = manifests[job.stamp]
    BY <1>11, Pruning
  <2>2. job' \in JobRows /\ job'.pc = "idle" /\ job'.stamp = job.stamp
    BY <1>3, <1>11
  <2>3. last = job.stamp
    BY <1>11 DEF JobSound
  <2>4. Frame
    BY <1>6, <1>11, <2>1, <2>2
  <2>5. NoneYounger' /\ JobSound'
    BY <1>11, <2>1, <2>2 DEF NoneYounger, JobSound
  <2>6. LastSuccessWhole'
    BY <1>11, <2>1, <2>3 DEF LastSuccessWhole
  <2>7. PairsAgree'
    BY <2>1 DEF PairsAgree
  <2> QED BY <1>4, <1>5, <2>4, <2>5, <2>6, <2>7
<1>12. CASE Prune
  BY <1>11, <1>12, <1>6, BackupAssumption DEF Prune
<1>13. ASSUME job' = [job EXCEPT !.pc = "idle"], told' \in 0..now, UNCHANGED <<dumps, manifests, last>>
       PROVE  BackupInv'
  <2>1. job' \in JobRows /\ job'.pc = "idle" /\ job'.stamp = job.stamp
    BY <1>3, <1>13
  <2>2. Frame
    BY <1>6, <1>13, <2>1
  <2>3. NoneYounger' /\ JobSound' /\ LastSuccessWhole' /\ PairsAgree'
    BY <1>13, <2>1 DEF NoneYounger, JobSound, LastSuccessWhole, PairsAgree
  <2> QED BY <1>4, <1>5, <2>2, <2>3
<1>14. CASE JobKilled
  BY <1>6, <1>13, <1>14 DEF JobKilled
<1>15. CASE BackupFails
  <2>1. told' \in 0..now /\ job' = [job EXCEPT !.pc = "idle"] /\ last' = last
    BY <1>2, <1>15 DEF BackupFails
  <2>2. CASE job.pc \in {"dump", "manifest"}
    <3>1. /\ dumps' = [dumps EXCEPT ![job.stamp] = Absent]
          /\ manifests' = [manifests EXCEPT ![job.stamp] = NoManifest]
      BY <1>15, <2>2 DEF BackupFails
    <3>2. job' \in JobRows /\ job'.pc = "idle" /\ job'.stamp = job.stamp
      BY <1>3, <2>1
    <3>3. Absent \in DumpRows /\ ~Absent.made /\ NoManifest \in ManifestRows /\ ~NoManifest.there
      BY BackupAssumption DEF Absent, DumpRows, NoManifest, NoEntry, ManifestRows, Entries
    <3>4. job.stamp \in Stamps /\ last < job.stamp
      BY <2>2 DEF JobSound
    <3>5. \A s \in Stamps : /\ dumps'[s] = IF s = job.stamp THEN Absent ELSE dumps[s]
                            /\ manifests'[s] = IF s = job.stamp THEN NoManifest ELSE manifests[s]
      BY <1>6, <3>1
    <3>6. Frame
      BY <1>6, <2>1, <3>1, <3>2, <3>3
    <3>7. NoneYounger' /\ JobSound' /\ PairsAgree'
      BY <2>1, <3>2, <3>3, <3>5 DEF NoneYounger, JobSound, PairsAgree
    <3>8. LastSuccessWhole'
      BY <1>2, <1>6, <2>1, <3>4, <3>5 DEF LastSuccessWhole, BackupRows, Stamps
    <3> QED BY <1>4, <1>5, <3>6, <3>7, <3>8
  <2>3. CASE job.pc = "prune"
    <3>1. PICK stop \in Stamps : PruneTo(stop)
      BY <1>15, <2>3 DEF BackupFails
    <3> QED BY <1>2, <1>11, <2>1, <2>3, <3>1
  <2>4. CASE job.pc \notin {"dump", "manifest", "prune"}
    BY <1>13, <1>15, <2>1, <2>4 DEF BackupFails
  <2> QED BY <2>2, <2>3, <2>4
<1> QED BY <1>7, <1>8, <1>9, <1>10, <1>12, <1>14, <1>15
\* A stage of a restore: read, verified or refused, written, cleared, replaced or broken off.
LEMMA RestoreMoves ==
  ASSUME BackupInv,
         RestoreSession \/ VerifyAudio \/ WriteRows \/ ClearFiles \/ ReplaceFiles \/ FilesFail \/ RestoreKilled
  PROVE  BackupInv'
<1> USE DEF BackupInv
<1>1. UNCHANGED <<now, live, jobVars, told>>
  BY DEF RestoreSession, VerifyAudio, WriteRows, Refuse, ClearFiles, ReplaceFiles, FilesFail, RestoreKilled
<1>2. restore \in RestoreRows /\ target \in TargetRows /\ copy \in [size : 0..MaxLen, same : BOOLEAN]
      /\ restore.from \in 0..now /\ MaxLen \in Nat /\ now \in Nat /\ now <= MaxNow
  BY BackupAssumption DEF BackupRows
<1>3. \A pc \in {"write", "clear", "replace", "done", "refused", "error"} :
        LET next == [restore EXCEPT !.pc = pc] IN
          /\ next \in RestoreRows /\ next.pc = pc /\ next.from = restore.from /\ next.entry = restore.entry
          /\ next.rows = restore.rows /\ next.force = restore.force /\ next.before = restore.before
  BY <1>2 DEF RestoreRows
<1>4. LiveSound' /\ NoneYounger' /\ LastSuccessWhole' /\ JobSound' /\ PairsAgree'
  BY <1>1 DEF LiveSound, NoneYounger, LastSuccessWhole, JobSound, PairsAgree, jobVars
<1>5. ASSUME restore' \in RestoreRows, restore'.from \in 0..now, target' \in TargetRows,
             copy' \in [size : 0..MaxLen, same : BOOLEAN]
      PROVE  BackupRows'
  BY <1>1, <1>5 DEF BackupRows, jobVars
<1>6. CASE RestoreSession
  <2>1. PICK s \in Stamps, n \in 0..MaxLen, same \in BOOLEAN, force \in BOOLEAN :
          /\ manifests[s].there /\ dumps[s].made /\ copy' = [size |-> n, same |-> same]
          /\ restore' = [pc |-> "verify", from |-> s, entry |-> manifests[s].entry, rows |-> dumps[s],
                      force |-> force, before |-> target]
          /\ target' = target
    BY <1>6 DEF RestoreSession
  <2>2. manifests[s] \in ManifestRows /\ dumps[s] \in DumpRows /\ s <= now /\ s \in 0..MaxNow
    <3>1. s \in Nat /\ job.stamp \in 0..now
      BY BackupAssumption DEF Stamps, BackupRows
    <3> QED BY <1>2, <2>1, <3>1 DEF BackupRows, NoneYounger, Stamps
  <2>3. manifests[s].entry \in Entries
    BY <2>2 DEF ManifestRows
  <2>4. restore' \in RestoreRows /\ restore'.from \in 0..now
    BY <1>2, <2>1, <2>2, <2>3 DEF RestoreRows
  <2>5. BackupRows'
    BY <1>2, <1>5, <2>1, <2>4
  <2>6. RestoreSound'
    BY <2>1 DEF RestoreSound, PairsAgree
  <2> QED BY <1>4, <2>5, <2>6
<1>7. CASE VerifyAudio
  <2>1. copy' = copy /\ target' = target /\ restore.pc = "verify"
    BY <1>7 DEF VerifyAudio, Refuse
  <2>2. PICK pc \in {"write", "refused"} : restore' = [restore EXCEPT !.pc = pc] /\ (pc = "write" => Verified(restore.entry))
    BY <1>7 DEF VerifyAudio, Refuse
  <2>3. /\ restore' \in RestoreRows /\ restore'.pc = pc /\ restore'.from = restore.from /\ restore'.entry = restore.entry
        /\ restore'.rows = restore.rows /\ restore'.before = restore.before
    BY <1>3, <2>2
  <2>4. BackupRows'
    BY <1>2, <1>5, <2>1, <2>3
  <2>5. RestoreSound'
    BY <2>1, <2>2, <2>3 DEF RestoreSound, Verified
  <2> QED BY <1>4, <2>4, <2>5
<1>8. CASE WriteRows
  <2> DEFINE to == [target EXCEPT !.row = TRUE, !.chunks = restore.rows.chunks, !.staged = TRUE]
  <2>1. copy' = copy /\ restore.pc = "write"
    BY <1>8 DEF WriteRows
  <2>2. PICK pc \in {"refused", "clear"} :
          /\ restore' = [restore EXCEPT !.pc = pc]
          /\ IF pc = "refused" THEN target' = target ELSE target' = to
    BY <1>8 DEF WriteRows, Refuse
  <2>3. /\ restore' \in RestoreRows /\ restore'.pc = pc /\ restore'.from = restore.from /\ restore'.entry = restore.entry
        /\ restore'.rows = restore.rows /\ restore'.before = restore.before
    BY <1>3, <2>2
  <2>4. to \in TargetRows /\ to.chunks = restore.rows.chunks
    <3>1. restore.rows.chunks \in 0..MaxLen
      BY <1>2 DEF RestoreRows, DumpRows
    <3> QED BY <1>2, <3>1 DEF TargetRows
  <2> HIDE DEF to
  <2>5. BackupRows'
    BY <1>2, <1>5, <2>1, <2>2, <2>3, <2>4
  <2>6. RestoreSound'
    BY <2>1, <2>2, <2>3, <2>4 DEF RestoreSound, Verified
  <2> QED BY <1>4, <2>5, <2>6
<1>9. CASE ClearFiles
  <2> DEFINE to == [target EXCEPT !.file = FALSE, !.size = 0]
  <2>1. copy' = copy /\ restore.pc = "clear" /\ restore' = [restore EXCEPT !.pc = "replace"] /\ target' = to
    BY <1>9 DEF ClearFiles
  <2>2. /\ restore' \in RestoreRows /\ restore'.pc = "replace" /\ restore'.from = restore.from
        /\ restore'.entry = restore.entry /\ restore'.rows = restore.rows
    BY <1>3, <2>1
  <2>3. to \in TargetRows /\ to.chunks = target.chunks
    <3>1. 0 \in 0..MaxLen
      BY <1>2
    <3> QED BY <1>2, <3>1 DEF TargetRows
  <2> HIDE DEF to
  <2>4. BackupRows'
    BY <1>2, <1>5, <2>1, <2>2, <2>3
  <2>5. RestoreSound'
    BY <2>1, <2>2, <2>3 DEF RestoreSound, Verified
  <2> QED BY <1>4, <2>4, <2>5
<1>10. CASE ReplaceFiles
  <2> DEFINE to == [target EXCEPT !.file = restore.entry.listed, !.staged = FALSE,
                              !.size = IF restore.entry.listed THEN copy.size ELSE 0]
  <2>1. copy' = copy /\ restore.pc = "replace" /\ restore' = [restore EXCEPT !.pc = "done"] /\ target' = to
    BY <1>10 DEF ReplaceFiles
  <2>2. /\ restore' \in RestoreRows /\ restore'.pc = "done" /\ restore'.from = restore.from
        /\ restore'.entry = restore.entry /\ restore'.rows = restore.rows
    BY <1>3, <2>1
  <2>3. restore.entry.listed \in BOOLEAN /\ copy.size \in 0..MaxLen /\ 0 \in 0..MaxLen
    BY <1>2 DEF RestoreRows, Entries
  <2>4. to \in TargetRows /\ to.chunks = target.chunks /\ (restore.entry.listed => to.file /\ to.size = copy.size)
    BY <1>2, <2>3 DEF TargetRows
  <2> HIDE DEF to
  <2>5. BackupRows'
    BY <1>2, <1>5, <2>1, <2>2, <2>4
  <2>6. RestoreSound'
    BY <2>1, <2>2, <2>4 DEF RestoreSound, Verified
  <2> QED BY <1>4, <2>5, <2>6
<1>11. CASE FilesFail \/ RestoreKilled
  <2> DEFINE to == [target EXCEPT !.staged = FALSE]
  <2>1. copy' = copy /\ restore' = [restore EXCEPT !.pc = "error"] /\ target' \in {target, to} /\ restore.pc # "idle"
    BY <1>11 DEF FilesFail, RestoreKilled
  <2>2. /\ restore' \in RestoreRows /\ restore'.pc = "error" /\ restore'.from = restore.from
        /\ restore'.entry = restore.entry /\ restore'.rows = restore.rows
    BY <1>3, <2>1
  <2>3. to \in TargetRows
    BY <1>2 DEF TargetRows
  <2> HIDE DEF to
  <2>4. BackupRows'
    BY <1>2, <1>5, <2>1, <2>2, <2>3
  <2>5. RestoreSound'
    BY <2>1, <2>2 DEF RestoreSound
  <2> QED BY <1>4, <2>4, <2>5
<1> QED BY <1>6, <1>7, <1>8, <1>9, <1>10, <1>11

\* Every step keeps the invariant.
LEMMA BackupStep ==
  ASSUME BackupInv, [BackupNext]_backupVars
  PROVE  BackupInv'
<1>1. CASE UNCHANGED backupVars
  BY <1>1 DEF backupVars, BackupInv, BackupRows, LiveSound, NoneYounger, LastSuccessWhole, JobSound, PairsAgree,
     RestoreSound, Verified
<1>2. CASE Record \/ PurgeExpiredAudio \/ PurgeOne
  BY <1>2, SessionLives
<1>3. CASE Tick \/ CheckBackup
  BY <1>3, MomentPasses
<1>4. CASE RunBackup \/ PgDump \/ BuildManifest \/ WriteLastSuccess \/ Prune \/ BackupFails \/ JobKilled
  BY <1>4, JobMoves
<1>5. CASE RestoreSession \/ VerifyAudio \/ WriteRows \/ ClearFiles \/ ReplaceFiles \/ FilesFail \/ RestoreKilled
  BY <1>5, RestoreMoves
<1> QED BY <1>1, <1>2, <1>3, <1>4, <1>5 DEF BackupNext

\* The record of the last success names a dump and a manifest that are both there, whatever failed,
\* was killed or was pruned since, and what a restore puts back is as long as its rows say; one that
\* was refused has changed nothing (backup.py).
THEOREM BackupsAreSound == BackupInit /\ [][BackupNext]_backupVars => []BackupsSound
<1>1. BackupInit => BackupInv
  BY BackupInitInv
<1>2. BackupInv /\ [BackupNext]_backupVars => BackupInv'
  BY BackupStep
<1>3. BackupInv => BackupsSound
  BY BackupInvSays
<1> QED BY <1>1, <1>2, <1>3, PTL

-----------------------------------------------------------------------------
(* Publication: the invariant *)

NoteStates == {"none", "publishing", "open", "merged", "closed", "failed", "skipped"}
SessionOf == [status : {"done", "finalizing"}, deleted : {"no", "new", "old"}, due : BOOLEAN,
              restricted : BOOLEAN, gone : BOOLEAN]
PubRows == [state : NoteStates, pr : Nat, text : Nat, stale : BOOLEAN]
OpRows == [name : {"none", "publish", "edit", "merge", "close", "skip", "refresh", "lift"},
           pc : {"idle", "branch", "blob", "put", "pr", "record", "get", "merge", "drop", "close", "skip"},
           by : {"none", "owner", "auto", "all", "loop"}, text : Nat, blob : Nat,
           pr : {"none", "open", "merged", "closed"}]
PullRows == [state : {"open", "merged", "closed"}, text : Nat]

NoteRows ==
  /\ session \in SessionOf /\ pub \in PubRows /\ op \in OpRows /\ prs \in Seq(PullRows)
  /\ used \in Nat /\ {text, branch, vault} \subseteq Nat /\ secret \subseteq Nat
  /\ run \in {"none", "start", "restricted", "plain", "ready"} /\ asked \subseteq {"auto", "all"}
  /\ budget \in [PublicationEvents -> Nat]

\* No text is used before it exists, and the row names a pull request that was opened.
NoteBounds ==
  /\ {text, pub.text, op.text, op.blob, branch, vault} \subseteq 0..used /\ secret \subseteq 1..used
  /\ \A p \in DOMAIN prs : prs[p].text \in 0..used
  /\ pub.pr \in 0..Len(prs)

\* Where each operation may stand, and what the row says meanwhile.
OpShape ==
  /\ op.name = "none" => op = Free
  /\ op.name = "publish" => op.pc \in {"branch", "blob", "put", "pr", "record"} /\ pub.state = "publishing"
  /\ op.name = "edit" => op.pc \in {"blob", "put", "record"} /\ pub.state = "open"
  /\ op.name = "merge" => op.pc \in {"get", "merge", "drop", "record"} /\ pub.state = "open"
  /\ op.name = "close" => op.pc \in {"close", "drop", "record"} /\ pub.state = "open"
  /\ op.name = "skip" => op.pc \in {"close", "drop", "record", "skip"} /\ (op.pc # "skip" => pub.state = "open")
  /\ op.name = "refresh" => op.pc \in {"get", "drop"} /\ (op.pc = "get" => pub.state = "open")
  /\ op.name = "lift" => op.pc = "idle"
  /\ op.name \in {"close", "skip"} /\ op.pc \in {"drop", "record"} => op.pr \in {"closed", "merged"}
\* publish and edit carry the note as it is.
OpText == op.name \in {"publish", "edit"} => op.text = text
\* A note that is being written again has no publication in flight and nobody at it.
Finalizing ==
  /\ session.status = "finalizing" => op.name = "none" /\ pub.state \notin InFlight
  /\ run \in {"start", "restricted", "plain"} => session.status = "finalizing"
\* An open row has a pull request, and so has one about to be recorded.
PrThere ==
  /\ pub.state = "open" => pub.pr \in DOMAIN prs
  /\ op.name = "publish" /\ op.pc = "record" => Len(prs) > 0
  /\ op.name = "refresh" /\ op.pc = "get" => prs[pub.pr].state # "open"
\* The tag is on no text that may leave: a restricted session publishes nothing, and its tag goes
\* before its flag.
Tagged ==
  /\ session.restricted => pub.state \notin InFlight
  /\ text \in secret => session.restricted
  /\ run = "restricted" => session.restricted
  /\ op.name = "lift" => text \notin secret
  /\ op.name \in {"publish", "edit"} => op.text \notin secret
  /\ RestrictedKept
\* While the row is open it is of the note, an edit in progress and a failed one apart.
OpenText == pub.state = "open" /\ ~pub.stale /\ Never({"crash"}) /\ op.name # "edit" => pub.text = text
\* What is open on GitHub, by what the lock's holder has done so far.
RowKnows == \A p \in OpenPrs : pub.state = "open" /\ pub.pr = p
NothingOpen == OpenPrs = {}
EndedOne == \/ op.name \in {"merge", "close", "skip"} /\ op.pc \in {"drop", "record", "skip"}
            \/ op.name = "refresh"
PrKnown ==
  Never({"lost", "crash"}) =>
    /\ op.name # "publish" => RowKnows
    /\ op.name = "publish" /\ op.pc # "record" => NothingOpen
    /\ op.name = "publish" /\ op.pc = "record" => OpenPrs \subseteq {Len(prs)}
    /\ EndedOne => NothingOpen

NoteInv ==
  /\ NoteRows /\ NoteBounds /\ OpShape /\ OpText /\ Finalizing /\ PrThere /\ Tagged /\ OpenText /\ PrKnown

-----------------------------------------------------------------------------
(* Publication: the proof *)

\* The invariant holds where everything begins.
LEMMA NoteInitInv == PublicationInit => NoteInv
<1> SUFFICES ASSUME PublicationInit PROVE NoteInv
  OBVIOUS
<1>1. session \in SessionOf /\ session.status = "done" /\ (secret = IF session.restricted THEN {1} ELSE {})
  BY DEF PublicationInit, SessionOf
<1>2. /\ text = 1 /\ used = 1 /\ pub = NoPublication /\ op = Free /\ run = "none" /\ asked = {}
      /\ branch = 0 /\ prs = <<>> /\ vault = 0 /\ budget = [e \in PublicationEvents |-> 0]
  BY DEF PublicationInit
<1>3. NoPublication \in PubRows /\ Free \in OpRows /\ <<>> \in Seq(PullRows) /\ Len(<<>>) = 0
  BY DEF NoPublication, PubRows, NoteStates, Free, OpRows
<1>4. /\ NoPublication.state = "none" /\ NoPublication.text = 0 /\ NoPublication.pr = 0
      /\ Free.name = "none" /\ Free.text = 0 /\ Free.blob = 0
  BY DEF NoPublication, Free
<1>5. NoteRows
  BY <1>1, <1>2, <1>3 DEF NoteRows
<1>6. NoteBounds
  BY <1>1, <1>2, <1>3, <1>4 DEF NoteBounds
<1>7. OpShape /\ OpText /\ Finalizing /\ PrThere /\ OpenText
  BY <1>1, <1>2, <1>4 DEF OpShape, OpText, Finalizing, InFlight, PrThere, OpenText
<1>8. Tagged
  BY <1>1, <1>2, <1>4 DEF Tagged, RestrictedKept, InFlight
<1>9. PrKnown
  <2>1. OpenPrs = {}
    BY <1>2 DEF OpenPrs
  <2> QED BY <2>1, <1>2, <1>4 DEF PrKnown, RowKnows, NothingOpen
<1> QED BY <1>5, <1>6, <1>7, <1>8, <1>9 DEF NoteInv

\* What the invariant says is that the row, the note and GitHub agree.
LEMMA NoteInvSays == NoteInv => NoteSound
<1> SUFFICES ASSUME NoteInv PROVE NoteSound
  OBVIOUS
<1> USE DEF NoteInv
<1>1. PublicationTypeOK
  <2>1. \A p \in DOMAIN prs : prs[p] \in PullRows
    BY DEF NoteRows
  <2>2. \A p \in DOMAIN prs : prs[p].state \in {"open", "merged", "closed"}
    BY <2>1 DEF PullRows
  <2> QED BY <2>2 DEF NoteRows, NoteBounds, PublicationTypeOK, SessionOf, PubRows, NoteStates, OpRows
<1>2. ~Locked => op.name = "none"
  BY DEF Locked, Free
<1>3. OpenShowsNote
  BY <1>2 DEF OpenShowsNote, OpenText
<1>4. OpenPrKnown
  BY <1>2 DEF OpenPrKnown, PrKnown, RowKnows
<1> QED BY <1>1, <1>3, <1>4 DEF NoteSound, Tagged

\* A step spends one event or none.
Spent == UNCHANGED budget \/ \E e \in PublicationEvents : Spend(e)

\* Events are counted: what has not happened had not happened before.
LEMMA SpentOnce ==
  ASSUME budget \in [PublicationEvents -> Nat], Spent
  PROVE  /\ budget' \in [PublicationEvents -> Nat]
         /\ Never({"crash"})' => Never({"crash"})
         /\ Never({"lost", "crash"})' => Never({"lost", "crash"})
         /\ Spend("crash") => ~Never({"crash"})' /\ ~Never({"lost", "crash"})'
         /\ Spend("lost") => ~Never({"lost", "crash"})'
<1>1. budget' \in [PublicationEvents -> Nat] /\ \A e \in PublicationEvents : budget[e] <= budget'[e]
  BY DEF Spent, Spend
<1>2. {"lost", "crash"} \subseteq PublicationEvents
  BY DEF PublicationEvents
<1>3. \A e \in {"lost", "crash"} : Spend(e) => budget'[e] > 0
  BY <1>2 DEF Spend
<1>4. \A e \in {"lost", "crash"} : budget'[e] = 0 => budget[e] = 0
  BY <1>1, <1>2
<1> QED BY <1>1, <1>2, <1>3, <1>4 DEF Never

\* What the updates of the lock's holder and of the row come to.
LEMMA OpUpdates ==
  ASSUME op \in OpRows,
         NEW pc \in {"idle", "branch", "blob", "put", "pr", "record", "get", "merge", "drop", "close", "skip"}
  PROVE  LET next == [op EXCEPT !.pc = pc] IN
           /\ next \in OpRows /\ next.name = op.name /\ next.pc = pc /\ next.text = op.text /\ next.blob = op.blob
           /\ next.pr = op.pr
BY DEF OpRows

\* The lock with no holder.
LEMMA FreeIs == Free \in OpRows /\ Free.name = "none" /\ Free.text = 0 /\ Free.blob = 0 /\ Free.pc = "idle"
BY DEF OpRows, Free

\* Each update of the row the code makes, and what it leaves as it was.
LEMMA PubUpdates ==
  ASSUME pub \in PubRows
  PROVE  /\ \A state \in NoteStates :
              LET next == [pub EXCEPT !.state = state] IN
                /\ next \in PubRows /\ next.state = state /\ next.pr = pub.pr /\ next.text = pub.text
                /\ next.stale = pub.stale
         /\ LET next == [pub EXCEPT !.stale = TRUE] IN
              /\ next \in PubRows /\ next.state = pub.state /\ next.pr = pub.pr /\ next.text = pub.text
              /\ next.stale
         /\ LET next == [pub EXCEPT !.state = "skipped", !.stale = FALSE] IN
              /\ next \in PubRows /\ next.state = "skipped" /\ next.pr = pub.pr /\ next.text = pub.text
         /\ LET next == [pub EXCEPT !.state = "publishing", !.pr = 0, !.stale = FALSE] IN
              /\ next \in PubRows /\ next.state = "publishing" /\ next.pr = 0 /\ next.text = pub.text
         /\ \A n \in Nat :
              LET next == [pub EXCEPT !.text = n, !.stale = FALSE] IN
                /\ next \in PubRows /\ next.state = pub.state /\ next.pr = pub.pr /\ next.text = n
         /\ \A n, p \in Nat :
              LET next == [pub EXCEPT !.state = "open", !.text = n, !.pr = p] IN
                /\ next \in PubRows /\ next.state = "open" /\ next.pr = p /\ next.text = n
BY DEF PubRows, NoteStates

\* The row of a note that was never published.
LEMMA NoPublicationIs ==
  /\ NoPublication \in PubRows /\ NoPublication.state = "none" /\ NoPublication.pr = 0 /\ NoPublication.text = 0
BY DEF NoPublication, PubRows, NoteStates

-----------------------------------------------------------------------------
(* Publication: what a call does at GitHub *)

\* Pull requests come to an end and never open again, texts that exist are moved about, and none of
\* them carries the tag.
GitForward ==
  /\ prs' \in Seq(PullRows) /\ Len(prs) <= Len(prs')
  /\ \A p \in DOMAIN prs' : prs'[p].text \in 0..used
  /\ \A p \in DOMAIN prs : p \in DOMAIN prs' /\ (prs[p].state # "open" => prs'[p].state # "open")
  /\ {branch', vault'} \subseteq 0..used /\ {branch', vault'} \cap secret = {}

\* The pull requests as a function of their numbers.
LEMMA PullsAre ==
  ASSUME NoteInv
  PROVE  /\ DOMAIN prs = 1..Len(prs) /\ Len(prs) \in Nat
         /\ \A p \in DOMAIN prs : prs[p] \in PullRows /\ prs[p].text \in 0..used
  BY DEF NoteInv, NoteRows, NoteBounds

\* A function over the same numbers, of pull requests, is a sequence of them.
LEMMA PullsAgain ==
  ASSUME NoteInv, DOMAIN prs' = DOMAIN prs, prs' = [p \in DOMAIN prs |-> prs'[p]],
         \A p \in DOMAIN prs : prs'[p] \in PullRows
  PROVE  prs' \in Seq(PullRows) /\ Len(prs') = Len(prs)
<1>1. DOMAIN prs = 1..Len(prs) /\ Len(prs) \in Nat
  BY PullsAre
<1>2. prs' \in [1..Len(prs) -> PullRows]
  BY <1>1
<1> QED BY <1>1, <1>2

\* Nothing moves, or a branch is reset, a file is put.
LEMMA GitStands ==
  ASSUME NoteInv, UNCHANGED prs, branch' \in {branch, vault, op.text, 0}, vault' = vault,
         branch' = op.text => op.text \notin secret
  PROVE  GitForward /\ OpenPrs' = OpenPrs
<1>1. 0 \notin secret
  BY DEF NoteInv, NoteBounds
<1>2. GitForward
  BY <1>1 DEF GitForward, NoteInv, NoteRows, NoteBounds, Tagged, RestrictedKept
<1> QED BY <1>2 DEF OpenPrs

\* A pull request ends.
LEMMA GitEnds ==
  ASSUME NoteInv, NEW p \in DOMAIN prs, NEW state \in {"merged", "closed"}, End(p, state), UNCHANGED branch,
         vault' \in {branch, vault}
  PROVE  GitForward /\ OpenPrs' = OpenPrs \ {p} /\ prs'[p].state = state
<1> DEFINE row == [state |-> state, text |-> branch]
<1>1. row \in PullRows /\ row.state = state /\ row.text \in 0..used /\ state # "open"
  BY DEF PullRows, NoteInv, NoteRows, NoteBounds
<1> HIDE DEF row
<1>2. prs' = [prs EXCEPT ![p] = row]
  BY DEF End, row
<1>3. /\ DOMAIN prs' = DOMAIN prs /\ prs' = [q \in DOMAIN prs |-> prs'[q]]
      /\ \A q \in DOMAIN prs : prs'[q] = IF q = p THEN row ELSE prs[q]
  BY <1>2, PullsAre
<1>4. prs' \in Seq(PullRows) /\ Len(prs') = Len(prs)
  <2>1. \A q \in DOMAIN prs : prs'[q] \in PullRows
    BY <1>1, <1>3, PullsAre
  <2> QED BY <1>3, <2>1, PullsAgain
<1>5. GitForward
  <2>1. {branch', vault'} \subseteq 0..used /\ {branch', vault'} \cap secret = {}
    BY DEF NoteInv, NoteBounds, Tagged, RestrictedKept
  <2>2. \A q \in DOMAIN prs' : prs'[q].text \in 0..used
    BY <1>1, <1>3, PullsAre
  <2>3. \A q \in DOMAIN prs : q \in DOMAIN prs' /\ (prs[q].state # "open" => prs'[q].state # "open")
    BY <1>1, <1>3
  <2>4. Len(prs) <= Len(prs')
    BY <1>4, PullsAre
  <2> QED BY <1>4, <2>1, <2>2, <2>3, <2>4 DEF GitForward
<1>6. OpenPrs' = OpenPrs \ {p}
  BY <1>1, <1>3 DEF OpenPrs
<1> QED BY <1>1, <1>3, <1>5, <1>6

\* A branch is deleted, and what was open for it ends.
LEMMA GitDeletes ==
  ASSUME NoteInv, DeleteBranch
  PROVE  GitForward /\ OpenPrs' = {}
<1>1. /\ branch' = 0 /\ vault' = vault
      /\ prs' = [p \in DOMAIN prs |-> IF prs[p].state = "open"
                                      THEN [state |-> "closed", text |-> branch] ELSE prs[p]]
  BY DEF DeleteBranch
<1>2. /\ DOMAIN prs' = DOMAIN prs
      /\ \A p \in DOMAIN prs : prs'[p] = IF prs[p].state = "open" THEN [state |-> "closed", text |-> branch] ELSE prs[p]
  BY <1>1
<1>3. \A p \in DOMAIN prs : prs'[p] \in PullRows /\ prs'[p].state # "open" /\ prs'[p].text \in 0..used
  <2>1. branch \in 0..used /\ branch \in Nat
    BY DEF NoteInv, NoteBounds, NoteRows
  <2> QED BY <1>2, <2>1, PullsAre DEF PullRows
<1>4. prs' \in Seq(PullRows) /\ Len(prs') = Len(prs)
  <2>1. prs' = [p \in DOMAIN prs |-> prs'[p]]
    BY <1>1
  <2> QED BY <1>2, <1>3, <2>1, PullsAgain
<1>5. 0 \notin secret
  BY DEF NoteInv, NoteBounds
<1>6. GitForward
  BY <1>1, <1>2, <1>3, <1>4, <1>5, PullsAre DEF GitForward, NoteInv, NoteRows, NoteBounds, Tagged, RestrictedKept
<1> QED BY <1>2, <1>3, <1>6 DEF OpenPrs

\* A pull request is opened unless one is open.
LEMMA GitOpens ==
  ASSUME NoteInv, OpenPr
  PROVE  /\ GitForward /\ Len(prs') > 0
         /\ NothingOpen => OpenPrs' = {Len(prs')}
<1> DEFINE row == [state |-> "open", text |-> 0]
<1>1. /\ branch' = branch /\ vault' = vault
      /\ prs' = IF OpenPrs = {} THEN Append(prs, row) ELSE prs
  BY DEF OpenPr
<1>2. CASE OpenPrs # {}
  <2>1. Len(prs) > 0
    BY <1>2, PullsAre DEF OpenPrs
  <2>2. UNCHANGED prs /\ branch' \in {branch, vault, op.text, 0} /\ vault' = vault
    BY <1>1, <1>2
  <2>3. branch \notin secret
    BY DEF NoteInv, Tagged, RestrictedKept
  <2>4. GitForward
    BY <1>1, <2>2, <2>3, GitStands
  <2> QED BY <1>2, <2>1, <2>2, <2>4 DEF NothingOpen
<1>3. CASE OpenPrs = {}
  <2>1. row \in PullRows /\ row.state = "open" /\ row.text = 0
    BY DEF PullRows
  <2> HIDE DEF row
  <2>2. /\ prs' \in Seq(PullRows) /\ Len(prs') = Len(prs) + 1 /\ DOMAIN prs' = 1..(Len(prs) + 1)
        /\ \A p \in DOMAIN prs : prs'[p] = prs[p]
        /\ prs'[Len(prs) + 1] = row
    <3>1. prs \in Seq(PullRows) /\ prs' = Append(prs, row)
      BY <1>1, <1>3 DEF NoteInv, NoteRows
    <3> QED BY <2>1, <3>1
  <2>3. \A p \in DOMAIN prs' : p \in DOMAIN prs \/ p = Len(prs) + 1
    BY <2>2, PullsAre
  <2>4. \A p \in DOMAIN prs' : prs'[p].text \in 0..used
    BY <2>1, <2>2, <2>3, PullsAre DEF NoteInv, NoteRows
  <2>5. GitForward
    <3>1. {branch', vault'} \subseteq 0..used /\ {branch', vault'} \cap secret = {}
      BY <1>1 DEF NoteInv, NoteBounds, Tagged, RestrictedKept
    <3>2. /\ Len(prs) <= Len(prs')
          /\ \A p \in DOMAIN prs : p \in DOMAIN prs' /\ (prs[p].state # "open" => prs'[p].state # "open")
      BY <2>2, PullsAre
    <3> QED BY <2>2, <2>4, <3>1, <3>2 DEF GitForward
  <2>6. OpenPrs' = {Len(prs')}
    BY <1>3, <2>1, <2>2, <2>3, PullsAre DEF OpenPrs
  <2> QED BY <2>2, <2>5, <2>6, PullsAre
<1> QED BY <1>2, <1>3

\* GitHub is as it was.
LEMMA GitSame ==
  ASSUME NoteInv, UNCHANGED gitVars
  PROVE  GitForward /\ OpenPrs' = OpenPrs
<1>1. UNCHANGED prs /\ branch' = branch /\ vault' = vault
  BY DEF gitVars
<1>2. branch \notin secret
  BY DEF NoteInv, Tagged, RestrictedKept
<1> QED BY <1>1, <1>2, GitStands

-----------------------------------------------------------------------------
(* Publication: the lock's holder *)

\* The note, its tag and its run are as they were: what there is to show of the rest.
LEMMA NoteStands ==
  ASSUME NoteInv, UNCHANGED <<session, text, used, secret, run>>, asked' \subseteq {"auto", "all"}, GitForward, Spent,
         op' \in OpRows, op'.text \in 0..used, op'.blob \in 0..used,
         op'.name \in {"publish", "edit"} => op'.text = text /\ text \notin secret,
         op'.name = "lift" => op.name = "lift",
         pub' \in PubRows, pub'.text \in 0..used, pub'.pr \in 0..Len(prs'),
         session.restricted => pub'.state \notin InFlight,
         session.status = "finalizing" => op'.name = "none" /\ pub'.state \notin InFlight
  PROVE  NoteRows' /\ NoteBounds' /\ OpText' /\ Finalizing' /\ Tagged'
<1> USE DEF NoteInv
<1>1. budget' \in [PublicationEvents -> Nat]
  BY SpentOnce DEF NoteRows
<1>2. {branch', vault'} \subseteq Nat
  BY DEF GitForward, NoteRows
<1>3. NoteRows'
  BY <1>1, <1>2 DEF NoteRows, GitForward
<1>4. NoteBounds'
  BY DEF NoteBounds, GitForward
<1>5. OpText' /\ Finalizing'
  BY DEF OpText, Finalizing, InFlight
<1>6. Tagged'
  BY DEF Tagged, GitForward, RestrictedKept
<1> QED BY <1>3, <1>4, <1>5, <1>6

\* A step of the lock's holder, which keeps its name and its text or lets go of the lock.
LEMMA HolderMoves ==
  ASSUME NoteInv, op.name # "none", UNCHANGED localVars, GitForward, Spent,
         op' = Free \/ (op' \in OpRows /\ op'.name = op.name /\ op'.text = op.text /\ op'.blob \in 0..used),
         pub' \in PubRows, pub'.text \in {pub.text, op.text}, pub'.pr \in {pub.pr, Len(prs')},
         pub'.state \in InFlight => pub.state \in InFlight
  PROVE  NoteRows' /\ NoteBounds' /\ OpText' /\ Finalizing' /\ Tagged'
<1> USE DEF NoteInv
<1>1. UNCHANGED <<session, text, used, secret, run>> /\ asked' \subseteq {"auto", "all"}
  BY DEF localVars, NoteRows
<1>2. /\ op' \in OpRows /\ op'.text \in 0..used /\ op'.blob \in 0..used
      /\ op'.name \in {"publish", "edit"} => op'.text = text /\ text \notin secret
      /\ op'.name = "lift" => op.name = "lift"
  <2>1. 0 \in 0..used /\ op.text \in 0..used
    BY DEF NoteBounds, NoteRows
  <2>2. op.name \in {"publish", "edit"} => op.text = text /\ text \notin secret
    BY DEF OpText, Tagged
  <2> QED BY <2>1, <2>2, FreeIs
<1>3. /\ pub'.text \in 0..used
      /\ pub'.pr \in 0..Len(prs')
  <2>1. Len(prs) \in Nat /\ Len(prs') \in Nat /\ Len(prs) <= Len(prs')
    BY DEF NoteRows, GitForward
  <2>2. pub.pr \in 0..Len(prs)
    BY DEF NoteBounds
  <2>3. pub'.text \in 0..used
    BY DEF NoteBounds
  <2> QED BY <2>1, <2>2, <2>3
<1>4. session.restricted => pub'.state \notin InFlight
  BY DEF Tagged
<1>5. session.status # "finalizing"
  BY DEF Finalizing
<1> QED BY <1>1, <1>2, <1>3, <1>4, <1>5, NoteStands

\* What the row says stays true of the pull requests as long as it stays as it is.
LEMMA RowStands ==
  ASSUME NoteInv, GitForward, pub'.state = pub.state, pub'.pr = pub.pr
  PROVE  pub'.state = "open" => pub'.pr \in DOMAIN prs'
BY DEF NoteInv, PrThere, GitForward

\* publish, up to the opening of the pull request: nothing is open, and a call that fails leaves the
\* row failed.
LEMMA Publishing ==
  ASSUME NoteInv, PublishBranch \/ PublishBlob \/ PublishPut
  PROVE  NoteInv'
<1> USE DEF NoteInv
<1> DEFINE Moved(pc) == [op EXCEPT !.pc = pc]
           Blobbed == [op EXCEPT !.pc = "put", !.blob = branch]
<1>1. op.name = "publish" /\ op.pc \in {"branch", "blob", "put"} /\ op \in OpRows /\ pub \in PubRows
  BY DEF PublishBranch, PublishBlob, PublishPut, At, ReadBlob, NoteRows
<1>2. pub.state = "publishing" /\ op.text \notin secret /\ vault \notin secret
  BY <1>1 DEF OpShape, Tagged, RestrictedKept
<1>3. ASSUME EnsureBranch \/ PutFile \/ UNCHANGED gitVars PROVE GitForward /\ OpenPrs' = OpenPrs
  BY <1>2, <1>3, GitStands, GitSame DEF EnsureBranch, PutFile
<1>4. /\ UNCHANGED localVars /\ Spent
      /\ EnsureBranch \/ PutFile \/ UNCHANGED gitVars
      /\ \/ Fail
         \/ UNCHANGED pub /\ (op' = Moved("blob") \/ op' = Moved("pr") \/ op' = Blobbed)
  <2>1. CASE PublishBranch
    BY <2>1 DEF PublishBranch, Call, Spent, PublicationEvents, Step
  <2>2. CASE PublishBlob
    BY <2>2 DEF PublishBlob, ReadBlob, Spent, PublicationEvents
  <2>3. CASE PublishPut
    BY <2>3 DEF PublishPut, Call, Spent, PublicationEvents, Step
  <2> QED BY <2>1, <2>2, <2>3
<1>5. GitForward /\ OpenPrs' = OpenPrs
  BY <1>3, <1>4
<1>6. \A pc \in {"blob", "pr"} : /\ Moved(pc) \in OpRows /\ Moved(pc).name = op.name /\ Moved(pc).pc = pc
                                 /\ Moved(pc).text = op.text /\ Moved(pc).blob \in 0..used
  <2>1. op.blob \in 0..used
    BY DEF NoteBounds
  <2> QED BY <1>1, <2>1 DEF OpRows
<1>7. /\ Blobbed \in OpRows /\ Blobbed.name = op.name /\ Blobbed.pc = "put" /\ Blobbed.text = op.text
      /\ Blobbed.blob \in 0..used
  BY <1>1 DEF OpRows, NoteBounds, NoteRows
<1> HIDE DEF Moved, Blobbed
<1>8. Never({"lost", "crash"})' => Never({"lost", "crash"})
  BY <1>4, SpentOnce DEF NoteRows
<1>9. CASE Fail
  <2>1. /\ op' = Free /\ pub' \in PubRows /\ pub'.state = "failed" /\ pub'.pr = pub.pr /\ pub'.text = pub.text
    BY <1>1, <1>9, PubUpdates DEF Fail, Release, NoteStates
  <2>2. NoteRows' /\ NoteBounds' /\ OpText' /\ Finalizing' /\ Tagged'
    BY <1>1, <1>4, <1>5, <2>1, HolderMoves DEF InFlight
  <2>3. OpShape' /\ PrThere' /\ OpenText'
    BY <2>1, FreeIs DEF OpShape, PrThere, OpenText
  <2>4. PrKnown'
    BY <1>1, <1>5, <1>8, <2>1, FreeIs DEF PrKnown, RowKnows, NothingOpen, EndedOne
  <2> QED BY <2>2, <2>3, <2>4
<1>10. CASE UNCHANGED pub /\ (op' = Moved("blob") \/ op' = Moved("pr") \/ op' = Blobbed)
  <2>1. /\ op' \in OpRows /\ op'.name = "publish" /\ op'.pc \in {"blob", "pr", "put"} /\ op'.text = op.text
        /\ op'.blob \in 0..used
    BY <1>1, <1>6, <1>7, <1>10
  <2>2. NoteRows' /\ NoteBounds' /\ OpText' /\ Finalizing' /\ Tagged'
    BY <1>1, <1>4, <1>5, <1>10, <2>1, HolderMoves
  <2>3. OpShape' /\ PrThere' /\ OpenText'
    BY <1>2, <1>10, <2>1 DEF OpShape, PrThere, OpenText
  <2>4. PrKnown'
    BY <1>1, <1>5, <1>8, <2>1 DEF PrKnown, NothingOpen, EndedOne
  <2> QED BY <2>2, <2>3, <2>4
<1> QED BY <1>4, <1>9, <1>10

\* publish opens its pull request: unless the answer is lost, it is the only one open.
LEMMA Opening ==
  ASSUME NoteInv, PublishPr
  PROVE  NoteInv'
<1> USE DEF NoteInv
<1> DEFINE next == [op EXCEPT !.pc = "record"]
<1>1. op.name = "publish" /\ op.pc = "pr" /\ op \in OpRows /\ pub \in PubRows /\ pub.state = "publishing"
  BY DEF PublishPr, At, NoteRows, OpShape
<1>2. /\ UNCHANGED localVars /\ Spent
      /\ \/ OpenPr /\ op' = next /\ UNCHANGED pub
         \/ OpenPr /\ Fail /\ Spend("lost")
         \/ UNCHANGED gitVars /\ Fail
  BY DEF PublishPr, Call, Spent, PublicationEvents, Step
<1>3. GitForward
  BY <1>2, GitOpens, GitSame
<1>4. Never({"lost", "crash"})' => Never({"lost", "crash"}) /\ ~Spend("lost")
  BY <1>2, SpentOnce DEF NoteRows
<1>5. CASE OpenPr /\ op' = next /\ UNCHANGED pub
  <2>1. op' \in OpRows /\ op'.name = "publish" /\ op'.pc = "record" /\ op'.text = op.text /\ op'.blob \in 0..used
    BY <1>1, <1>5, OpUpdates DEF NoteBounds
  <2>2. NoteRows' /\ NoteBounds' /\ OpText' /\ Finalizing' /\ Tagged'
    BY <1>1, <1>2, <1>3, <1>5, <2>1, HolderMoves
  <2>3. OpShape' /\ PrThere' /\ OpenText'
    BY <1>1, <1>5, <2>1, GitOpens DEF OpShape, PrThere, OpenText
  <2>4. PrKnown'
    <3>1. Never({"lost", "crash"})' => OpenPrs' \subseteq {Len(prs')}
      BY <1>1, <1>4, <1>5, GitOpens DEF PrKnown
    <3> QED BY <2>1, <3>1 DEF PrKnown, EndedOne
  <2> QED BY <2>2, <2>3, <2>4
<1>6. CASE Fail /\ (Spend("lost") \/ UNCHANGED gitVars)
  <2>1. /\ op' = Free /\ pub' \in PubRows /\ pub'.state = "failed" /\ pub'.pr = pub.pr /\ pub'.text = pub.text
    BY <1>1, <1>6, PubUpdates DEF Fail, Release, NoteStates
  <2>2. NoteRows' /\ NoteBounds' /\ OpText' /\ Finalizing' /\ Tagged'
    BY <1>1, <1>2, <1>3, <2>1, HolderMoves DEF InFlight
  <2>3. OpShape' /\ PrThere' /\ OpenText'
    BY <2>1, FreeIs DEF OpShape, PrThere, OpenText
  <2>4. PrKnown'
    <3>1. Never({"lost", "crash"})' => OpenPrs' = {}
      BY <1>1, <1>4, <1>6, GitSame DEF PrKnown, NothingOpen
    <3> QED BY <2>1, <3>1, FreeIs DEF PrKnown, RowKnows, EndedOne
  <2> QED BY <2>2, <2>3, <2>4
<1> QED BY <1>2, <1>5, <1>6

\* The row records the pull request that was opened last, and the text it carries.
LEMMA Recording ==
  ASSUME NoteInv, PublishRecord
  PROVE  NoteInv'
<1> USE DEF NoteInv
<1>1. op.name = "publish" /\ op.pc = "record" /\ op \in OpRows /\ pub \in PubRows /\ pub.state = "publishing"
  BY DEF PublishRecord, At, NoteRows, OpShape
<1>2. UNCHANGED localVars /\ Spent /\ UNCHANGED gitVars /\ op' = Free
  BY DEF PublishRecord, Spent, Release
<1>3. GitForward /\ OpenPrs' = OpenPrs /\ prs' = prs
  BY <1>2, GitSame DEF gitVars
<1>4. Len(prs) \in DOMAIN prs /\ Len(prs) \in Nat
  BY <1>1, PullsAre DEF PrThere
<1>5. pub' \in PubRows /\ pub'.state = "open" /\ pub'.pr = Len(prs) /\ pub'.text = op.text
  <2>1. op.text \in Nat /\ pub' = [pub EXCEPT !.state = "open", !.text = op.text, !.pr = Len(prs)]
    BY <1>1 DEF PublishRecord, OpRows
  <2> QED BY <1>1, <1>4, <2>1 DEF PubRows, NoteStates
<1>6. NoteRows' /\ NoteBounds' /\ OpText' /\ Finalizing' /\ Tagged'
  BY <1>1, <1>2, <1>3, <1>5, HolderMoves DEF InFlight
<1>7. OpShape' /\ PrThere'
  BY <1>2, <1>3, <1>4, <1>5, FreeIs DEF OpShape, PrThere
<1>8. OpenText'
  BY <1>1, <1>2, <1>5 DEF OpenText, OpText, localVars
<1>9. PrKnown'
  BY <1>1, <1>2, <1>3, <1>5, FreeIs, SpentOnce DEF PrKnown, RowKnows, EndedOne, NoteRows
<1> QED BY <1>6, <1>7, <1>8, <1>9

\* A step that leaves the row open, on the same pull request, with nothing ended or opened here: an
\* edit, a call that did nothing, a holder that lets go.
LEMMA StillOpen ==
  ASSUME NoteInv, GitForward, OpenPrs' \subseteq OpenPrs, Spent, op.name # "publish",
         op'.name # "publish", EndedOne' => OpenPrs' = {}, pub'.state = pub.state, pub'.pr = pub.pr
  PROVE  PrKnown'
<1>1. Never({"lost", "crash"})' => Never({"lost", "crash"})
  BY SpentOnce DEF NoteInv, NoteRows
<1> QED BY <1>1 DEF NoteInv, PrKnown, RowKnows, NothingOpen

\* edit_note pushes the note it has replaced, or marks the row as behind it.
LEMMA Editing ==
  ASSUME NoteInv, EditBlob \/ EditPut \/ EditRecord
  PROVE  NoteInv'
<1> USE DEF NoteInv
<1> DEFINE Moved == [op EXCEPT !.pc = "record"]
           Blobbed == [op EXCEPT !.pc = "put", !.blob = branch]
           Pushed == [pub EXCEPT !.text = op.text, !.stale = FALSE]
<1>1. op.name = "edit" /\ op.pc \in {"blob", "put", "record"} /\ op \in OpRows /\ pub \in PubRows /\ pub.state = "open"
  BY DEF EditBlob, EditPut, EditRecord, At, NoteRows, OpShape
<1>2. op.text \notin secret /\ op.text = text
  BY <1>1 DEF Tagged, OpText
<1>3. ASSUME PutFile \/ UNCHANGED gitVars PROVE GitForward /\ OpenPrs' = OpenPrs
  BY <1>2, <1>3, GitStands, GitSame DEF PutFile
<1>4. /\ UNCHANGED localVars /\ Spent
      /\ PutFile \/ UNCHANGED gitVars
      /\ \/ NotPushed
         \/ UNCHANGED pub /\ (op' = Moved \/ op' = Blobbed)
         \/ pub' = Pushed /\ op' = Free
  <2>1. CASE EditBlob
    BY <2>1 DEF EditBlob, ReadBlob, Spent, PublicationEvents
  <2>2. CASE EditPut
    BY <2>2 DEF EditPut, Call, Spent, PublicationEvents, Step
  <2>3. CASE EditRecord
    BY <2>3 DEF EditRecord, Spent, Release
  <2> QED BY <2>1, <2>2, <2>3
<1>5. GitForward /\ OpenPrs' = OpenPrs
  BY <1>3, <1>4
<1>6. Moved \in OpRows /\ Moved.name = op.name /\ Moved.pc = "record" /\ Moved.text = op.text /\ Moved.blob \in 0..used
  BY <1>1, OpUpdates DEF NoteBounds
<1>7. /\ Blobbed \in OpRows /\ Blobbed.name = op.name /\ Blobbed.pc = "put" /\ Blobbed.text = op.text
      /\ Blobbed.blob \in 0..used
  BY <1>1 DEF OpRows, NoteBounds, NoteRows
<1>8. Pushed \in PubRows /\ Pushed.state = pub.state /\ Pushed.pr = pub.pr /\ Pushed.text = op.text
  BY <1>1, PubUpdates DEF OpRows
<1> HIDE DEF Moved, Blobbed, Pushed
<1>9. /\ pub' \in PubRows /\ pub'.state = pub.state /\ pub'.pr = pub.pr /\ pub'.text \in {pub.text, op.text}
      /\ op' = Free \/ (op' \in OpRows /\ op'.name = "edit" /\ op'.pc \in {"record", "put"} /\ op'.text = op.text
                        /\ op'.blob \in 0..used)
      /\ op' = Free => pub'.stale \/ pub'.text = op.text
  <2>1. CASE NotPushed
    <3>1. pub' = [pub EXCEPT !.stale = TRUE] /\ op' = Free
      BY <2>1 DEF NotPushed, Release
    <3> QED BY <1>1, <3>1, PubUpdates
  <2>2. CASE UNCHANGED pub /\ (op' = Moved \/ op' = Blobbed)
    <3>1. op'.name = "edit" /\ Free.name = "none"
      BY <1>1, <1>6, <1>7, <2>2, FreeIs
    <3> QED BY <1>1, <1>6, <1>7, <2>2, <3>1
  <2>3. CASE pub' = Pushed /\ op' = Free
    BY <1>8, <2>3
  <2> QED BY <1>4, <2>1, <2>2, <2>3
<1>10. NoteRows' /\ NoteBounds' /\ OpText' /\ Finalizing' /\ Tagged'
  BY <1>1, <1>4, <1>5, <1>9, HolderMoves
<1>11. OpShape' /\ PrThere'
  BY <1>1, <1>5, <1>9, FreeIs, RowStands DEF OpShape, PrThere
<1>12. OpenText'
  BY <1>2, <1>4, <1>9 DEF OpenText, localVars
<1>13. PrKnown'
  BY <1>1, <1>4, <1>5, <1>9, FreeIs, StillOpen DEF EndedOne
<1> QED BY <1>10, <1>11, <1>12, <1>13

\* A step of merge, close, skip or refresh: the row stays or is settled, nothing opens, and once the
\* pull request has ended nothing is open.
LEMMA Settling ==
  ASSUME NoteInv, op.name \in {"merge", "close", "skip", "refresh"}, UNCHANGED localVars, GitForward, Spent,
         OpenPrs' \subseteq OpenPrs, pub' \in PubRows, pub'.pr = pub.pr, pub'.text = pub.text,
         \/ pub'.state = pub.state /\ pub'.stale = pub.stale
         \/ pub'.state \notin InFlight /\ (Never({"lost", "crash"}) => OpenPrs' = {}),
         \/ op' = Free
         \/ /\ op' \in OpRows /\ op'.name = op.name /\ op'.text = op.text /\ op'.blob = op.blob /\ op'.pc # "get"
            /\ OpShape' /\ (Never({"lost", "crash"}) /\ EndedOne' => OpenPrs' = {})
  PROVE  NoteInv'
<1> USE DEF NoteInv
<1>1. /\ Never({"lost", "crash"})' => Never({"lost", "crash"})
      /\ Never({"crash"})' => Never({"crash"})
  BY SpentOnce DEF NoteRows
<1>2. op'.name \notin {"publish", "edit"}
  BY FreeIs
<1>3. NoteRows' /\ NoteBounds' /\ OpText' /\ Finalizing' /\ Tagged'
  BY HolderMoves DEF NoteBounds, InFlight
<1>4. OpShape'
  BY FreeIs DEF OpShape
<1>5. PrThere'
  BY <1>2, FreeIs DEF PrThere, GitForward, InFlight
<1>6. OpenText'
  BY <1>1, <1>2 DEF OpenText, localVars, InFlight
<1>7. PrKnown'
  <2>1. Never({"lost", "crash"})' /\ EndedOne' => OpenPrs' = {}
    BY <1>1, FreeIs DEF EndedOne
  <2>2. Never({"lost", "crash"})' => RowKnows'
    BY <1>1 DEF PrKnown, RowKnows
  <2> QED BY <1>2, <2>1, <2>2 DEF PrKnown, NothingOpen
<1> QED BY <1>3, <1>4, <1>5, <1>6, <1>7

\* Under the lock of merge, close, skip or refresh the row that is open knows what is open.
LEMMA HolderKnows ==
  ASSUME NoteInv, op.name \in {"merge", "close", "skip", "refresh"}, Never({"lost", "crash"})
  PROVE  OpenPrs \subseteq {pub.pr} /\ (EndedOne => OpenPrs = {})
BY DEF NoteInv, PrKnown, RowKnows, NothingOpen

\* What a pull request that has ended makes of the row.
LEMMA SettledIs ==
  ASSUME pub \in PubRows, NEW state \in {"closed", "merged"}
  PROVE  /\ Settled(state) \in PubRows /\ Settled(state).state = state /\ Settled(state).pr = pub.pr
         /\ Settled(state).text = pub.text /\ state \notin InFlight
BY DEF Settled, PubRows, NoteStates, InFlight

\* merge looks at its pull request: one that has ended is settled, one whose head moved is left.
LEMMA MergeLooks ==
  ASSUME NoteInv, MergeGet
  PROVE  NoteInv'
<1> USE DEF NoteInv
<1> DEFINE next == [op EXCEPT !.pc = "merge"]
<1>1. op.name = "merge" /\ op.pc = "get" /\ op \in OpRows /\ pub \in PubRows /\ pub.state = "open"
  BY DEF MergeGet, At, NoteRows, OpShape
<1>2. UNCHANGED localVars /\ UNCHANGED gitVars /\ Spent
  BY DEF MergeGet, Spent, PublicationEvents
<1>3. GitForward /\ OpenPrs' = OpenPrs
  BY <1>2, GitSame
<1>4. pub.pr \in DOMAIN prs /\ prs[pub.pr] \in PullRows /\ prs[pub.pr].state \in {"open", "merged", "closed"}
  <2>1. pub.pr \in DOMAIN prs /\ prs[pub.pr] \in PullRows
    BY <1>1, PullsAre DEF PrThere
  <2> QED BY <2>1 DEF PullRows
<1>5. \/ prs[pub.pr].state # "open" /\ pub' = Settled(prs[pub.pr].state) /\ op' = Free
      \/ UNCHANGED pub /\ op' = Free
      \/ UNCHANGED pub /\ op' = next
  BY DEF MergeGet, Abandon, Release, Step
<1>6. next \in OpRows /\ next.name = "merge" /\ next.pc = "merge" /\ next.text = op.text /\ next.blob = op.blob
  BY <1>1, OpUpdates
<1> HIDE DEF next
<1>7. CASE prs[pub.pr].state # "open" /\ pub' = Settled(prs[pub.pr].state) /\ op' = Free
  <2>1. Never({"lost", "crash"}) => OpenPrs = {}
    BY <1>1, <1>4, <1>7, HolderKnows DEF OpenPrs
  <2>2. pub' \in PubRows /\ pub'.state \notin InFlight /\ pub'.pr = pub.pr /\ pub'.text = pub.text
    BY <1>1, <1>4, <1>7, SettledIs
  <2> QED BY <1>1, <1>2, <1>3, <1>7, <2>1, <2>2, Settling
<1>8. CASE UNCHANGED pub /\ op' = Free
  BY <1>1, <1>2, <1>3, <1>8, Settling
<1>9. CASE UNCHANGED pub /\ op' = next
  <2>1. OpShape' /\ ~EndedOne'
    BY <1>1, <1>6, <1>9 DEF OpShape, EndedOne
  <2> QED BY <1>1, <1>2, <1>3, <1>6, <1>9, <2>1, Settling
<1> QED BY <1>5, <1>7, <1>8, <1>9

\* merge at GitHub: what is merged is no longer open.
LEMMA MergeCalls ==
  ASSUME NoteInv, MergeCall
  PROVE  NoteInv'
<1> USE DEF NoteInv
<1> DEFINE next == [op EXCEPT !.pc = "drop"]
<1>1. op.name = "merge" /\ op.pc = "merge" /\ op \in OpRows /\ pub \in PubRows /\ pub.state = "open"
  BY DEF MergeCall, At, NoteRows, OpShape
<1>2. pub.pr \in DOMAIN prs
  BY <1>1 DEF PrThere
<1>3. /\ UNCHANGED localVars /\ Spent /\ UNCHANGED pub
      /\ \/ MergePr(pub.pr) /\ op' \in {next, Free}
         \/ UNCHANGED gitVars /\ op' = Free
  BY DEF MergeCall, Call, Spent, PublicationEvents, Abandon, Release, Step
<1>4. next \in OpRows /\ next.name = "merge" /\ next.pc = "drop" /\ next.text = op.text /\ next.blob = op.blob
  BY <1>1, OpUpdates
<1> HIDE DEF next
<1>5. CASE MergePr(pub.pr) /\ op' \in {next, Free}
  <2>1. GitForward /\ OpenPrs' = OpenPrs \ {pub.pr}
    <3>1. End(pub.pr, "merged") /\ vault' = branch /\ UNCHANGED branch
      BY <1>5 DEF MergePr
    <3> QED BY <1>2, <3>1, GitEnds
  <2>2. Never({"lost", "crash"}) => OpenPrs' = {}
    BY <1>1, <2>1, HolderKnows
  <2>3. op' = next => OpShape'
    BY <1>1, <1>3, <1>4 DEF OpShape
  <2> QED BY <1>1, <1>3, <1>4, <1>5, <2>1, <2>2, <2>3, Settling
<1>6. CASE UNCHANGED gitVars /\ op' = Free
  BY <1>1, <1>3, <1>6, GitSame, Settling
<1> QED BY <1>3, <1>5, <1>6

\* The branch goes, or stays and that is logged: nothing was open before.
LEMMA Dropping ==
  ASSUME NoteInv, DropBranch
  PROVE  NoteInv'
<1> USE DEF NoteInv
<1> DEFINE next == [op EXCEPT !.pc = "record"]
<1>1. /\ op.name \in {"merge", "close", "skip", "refresh"} /\ op.pc = "drop" /\ op \in OpRows /\ pub \in PubRows
      /\ op.name # "refresh" => pub.state = "open"
  BY FreeIs DEF DropBranch, NoteRows, OpShape, OpRows
<1>2. /\ UNCHANGED localVars /\ Spent /\ UNCHANGED pub
      /\ DeleteBranch \/ UNCHANGED gitVars
      /\ op' = IF op.name = "refresh" THEN Free ELSE next
  BY DEF DropBranch, Call, Spent, PublicationEvents, Release, Step
<1>3. GitForward /\ OpenPrs' \subseteq OpenPrs
  BY <1>2, GitDeletes, GitSame
<1>4. Never({"lost", "crash"}) => OpenPrs' = {}
  BY <1>1, <1>3, HolderKnows DEF EndedOne
<1>5. next \in OpRows /\ next.name = op.name /\ next.pc = "record" /\ next.text = op.text /\ next.blob = op.blob
      /\ next.pr = op.pr
  BY <1>1, OpUpdates
<1> HIDE DEF next
<1>6. op' = next => OpShape'
  <2> SUFFICES ASSUME op' = next PROVE OpShape'
    OBVIOUS
  <2>1. op.name # "refresh"
    BY <1>1, <1>2, <1>5, FreeIs
  <2>2. op.name \in {"close", "skip"} => op.pr \in {"closed", "merged"}
    BY <1>1 DEF OpShape
  <2> QED BY <1>1, <1>2, <1>5, <2>1, <2>2 DEF OpShape
<1> QED BY <1>1, <1>2, <1>3, <1>4, <1>5, <1>6, Settling

\* merge records that the note is in the vault.
LEMMA MergeRecords ==
  ASSUME NoteInv, MergeRecord
  PROVE  NoteInv'
<1> USE DEF NoteInv
<1>1. op.name = "merge" /\ op.pc = "record" /\ op \in OpRows /\ pub \in PubRows
  BY DEF MergeRecord, At, NoteRows
<1>2. UNCHANGED localVars /\ Spent /\ UNCHANGED gitVars /\ op' = Free /\ pub' = [pub EXCEPT !.state = "merged"]
  BY DEF MergeRecord, Spent, Release
<1>3. pub' \in PubRows /\ pub'.state \notin InFlight /\ pub'.pr = pub.pr /\ pub'.text = pub.text
  BY <1>1, <1>2, PubUpdates DEF NoteStates, InFlight
<1>4. Never({"lost", "crash"}) => OpenPrs = {}
  BY <1>1, HolderKnows DEF EndedOne
<1> QED BY <1>1, <1>2, <1>3, <1>4, GitSame, Settling

\* close and skip at GitHub: the answer says how the pull request ended.
LEMMA Closing ==
  ASSUME NoteInv, CloseCall
  PROVE  NoteInv'
<1> USE DEF NoteInv
<1>1. /\ op.name \in {"close", "skip"} /\ op.pc = "close" /\ op \in OpRows /\ pub \in PubRows /\ pub.state = "open"
  BY DEF CloseCall, NoteRows, OpShape
<1>2. pub.pr \in DOMAIN prs /\ prs[pub.pr].state \in {"open", "merged", "closed"}
  <2>1. pub.pr \in DOMAIN prs /\ prs[pub.pr] \in PullRows
    BY <1>1, PullsAre DEF PrThere
  <2> QED BY <2>1 DEF PullRows
<1>3. /\ UNCHANGED localVars /\ Spent /\ UNCHANGED pub
      /\ \/ ClosePr(pub.pr) /\ (op' = Free \/ op' = [op EXCEPT !.pc = "drop", !.pr = prs'[pub.pr].state])
         \/ UNCHANGED gitVars /\ op' = Free
  BY DEF CloseCall, Call, Spent, PublicationEvents, Abandon, Release
<1>4. CASE ClosePr(pub.pr) /\ (op' = Free \/ op' = [op EXCEPT !.pc = "drop", !.pr = prs'[pub.pr].state])
  <2>1. GitForward /\ OpenPrs' = OpenPrs \ {pub.pr} /\ prs'[pub.pr].state \in {"merged", "closed"}
    <3>1. CASE prs[pub.pr].state = "open"
      <4>1. End(pub.pr, "closed") /\ UNCHANGED branch /\ vault' = vault
        BY <1>4, <3>1 DEF ClosePr
      <4>2. DOMAIN prs' = DOMAIN prs /\ prs'[pub.pr] = [state |-> "closed", text |-> branch]
        BY <1>2, <4>1 DEF End
      <4> QED BY <1>2, <4>1, <4>2, GitEnds
    <3>2. CASE prs[pub.pr].state # "open"
      <4>1. UNCHANGED gitVars
        BY <1>4, <3>2 DEF ClosePr, gitVars
      <4>2. pub.pr \notin OpenPrs /\ prs' = prs
        BY <3>2, <4>1 DEF OpenPrs, gitVars
      <4> QED BY <1>2, <3>2, <4>1, <4>2, GitSame
    <3> QED BY <3>1, <3>2
  <2>2. Never({"lost", "crash"}) => OpenPrs' = {}
    BY <1>1, <2>1, HolderKnows
  <2>3. PICK ended \in {"merged", "closed"} : ended = prs'[pub.pr].state
    BY <2>1
  <2> DEFINE next == [op EXCEPT !.pc = "drop", !.pr = ended]
  <2>4. next \in OpRows /\ next.name = op.name /\ next.pc = "drop" /\ next.text = op.text /\ next.blob = op.blob
        /\ next.pr = ended
    BY <1>1 DEF OpRows
  <2>5. op' = Free \/ op' = next
    BY <1>4, <2>3
  <2> HIDE DEF next
  <2>6. op' = next => OpShape'
    BY <1>1, <1>3, <2>4 DEF OpShape
  <2> QED BY <1>1, <1>3, <2>1, <2>2, <2>4, <2>5, <2>6, Settling
<1>5. CASE UNCHANGED gitVars /\ op' = Free
  BY <1>1, <1>3, <1>5, GitSame, Settling
<1> QED BY <1>3, <1>4, <1>5

\* close and skip record how the pull request ended; skip has one more step.
LEMMA CloseRecords ==
  ASSUME NoteInv, CloseRecord
  PROVE  NoteInv'
<1> USE DEF NoteInv
<1> DEFINE next == [op EXCEPT !.pc = "skip"]
<1>1. /\ op.name \in {"close", "skip"} /\ op.pc = "record" /\ op \in OpRows /\ pub \in PubRows
      /\ op.pr \in {"closed", "merged"}
  BY DEF CloseRecord, NoteRows, OpShape
<1>2. UNCHANGED localVars /\ Spent /\ UNCHANGED gitVars /\ pub' = Settled(op.pr)
  BY DEF CloseRecord, Spent
<1>3. pub' \in PubRows /\ pub'.state \notin InFlight /\ pub'.pr = pub.pr /\ pub'.text = pub.text
  BY <1>1, <1>2, SettledIs
<1>4. Never({"lost", "crash"}) => OpenPrs = {}
  BY <1>1, HolderKnows DEF EndedOne
<1>5. next \in OpRows /\ next.name = op.name /\ next.pc = "skip" /\ next.text = op.text /\ next.blob = op.blob
  BY <1>1, OpUpdates
<1>6. op' = Free \/ (op' = next /\ op.name = "skip")
  BY <1>1 DEF CloseRecord, Release, Step
<1> HIDE DEF next
<1>7. op' = next /\ op.name = "skip" => OpShape'
  BY <1>5 DEF OpShape
<1> QED BY <1>1, <1>2, <1>3, <1>4, <1>5, <1>6, <1>7, GitSame, Settling

\* skip records that the note stays out.
LEMMA SkipRecords ==
  ASSUME NoteInv, SkipRecord
  PROVE  NoteInv'
<1> USE DEF NoteInv
<1>1. op.name = "skip" /\ op.pc = "skip" /\ op \in OpRows /\ pub \in PubRows
  BY DEF SkipRecord, At, NoteRows
<1>2. /\ UNCHANGED localVars /\ Spent /\ UNCHANGED gitVars /\ op' = Free
      /\ UNCHANGED pub \/ pub' = [pub EXCEPT !.state = "skipped", !.stale = FALSE]
  BY DEF SkipRecord, Spent, Release, Skipped
<1>3. /\ pub' \in PubRows /\ pub'.pr = pub.pr /\ pub'.text = pub.text
      /\ (pub'.state = pub.state /\ pub'.stale = pub.stale) \/ pub'.state \notin InFlight
  BY <1>1, <1>2, PubUpdates DEF InFlight
<1>4. Never({"lost", "crash"}) => OpenPrs = {}
  BY <1>1, HolderKnows DEF EndedOne
<1> QED BY <1>1, <1>2, <1>3, <1>4, GitSame, Settling

\* refresh settles the row of a pull request that has ended.
LEMMA Refreshing ==
  ASSUME NoteInv, RefreshGet
  PROVE  NoteInv'
<1> USE DEF NoteInv
<1> DEFINE next == [op EXCEPT !.pc = "drop"]
<1>1. op.name = "refresh" /\ op.pc = "get" /\ op \in OpRows /\ pub \in PubRows /\ pub.state = "open"
  BY DEF RefreshGet, At, NoteRows, OpShape
<1>2. UNCHANGED localVars /\ UNCHANGED gitVars /\ Spent
  BY DEF RefreshGet, Spent, PublicationEvents
<1>3. GitForward /\ OpenPrs' = OpenPrs
  BY <1>2, GitSame
<1>4. prs[pub.pr].state \in {"closed", "merged"}
  <2>1. prs[pub.pr] \in PullRows /\ prs[pub.pr].state # "open"
    BY <1>1, PullsAre DEF PrThere
  <2> QED BY <2>1 DEF PullRows
<1>5. Never({"lost", "crash"}) => OpenPrs = {}
  BY <1>1, HolderKnows DEF EndedOne
<1>6. \/ pub' = Settled(prs[pub.pr].state) /\ op' = next
      \/ UNCHANGED pub /\ op' = Free
  BY DEF RefreshGet, Abandon, Release, Step
<1>7. next \in OpRows /\ next.name = "refresh" /\ next.pc = "drop" /\ next.text = op.text /\ next.blob = op.blob
  BY <1>1, OpUpdates
<1> HIDE DEF next
<1>8. CASE pub' = Settled(prs[pub.pr].state) /\ op' = next
  <2>1. pub' \in PubRows /\ pub'.state \notin InFlight /\ pub'.pr = pub.pr /\ pub'.text = pub.text
    BY <1>1, <1>4, <1>8, SettledIs
  <2>2. OpShape'
    BY <1>7, <1>8 DEF OpShape
  <2> QED BY <1>1, <1>2, <1>3, <1>5, <1>7, <1>8, <2>1, <2>2, Settling
<1>9. CASE UNCHANGED pub /\ op' = Free
  BY <1>1, <1>2, <1>3, <1>9, Settling
<1> QED BY <1>6, <1>8, <1>9

\* The flag of a session whose note has lost its tag goes.
LEMMA LiftEnds ==
  ASSUME NoteInv, LiftClear
  PROVE  NoteInv'
<1> USE DEF NoteInv
<1>1. /\ op.name = "lift" /\ op' = Free /\ Spent /\ session' = [session EXCEPT !.restricted = FALSE]
      /\ UNCHANGED <<text, used, secret, run, asked, pub, gitVars>>
  BY DEF LiftClear, Spent, Release
<1>2. session' \in SessionOf /\ session'.status = session.status /\ session'.restricted = FALSE
  BY <1>1 DEF NoteRows, SessionOf
<1>3. GitForward /\ OpenPrs' = OpenPrs /\ prs' = prs /\ branch' = branch /\ vault' = vault
  BY <1>1, GitSame DEF gitVars
<1>4. NoteRows'
  BY <1>1, <1>2, <1>3, SpentOnce, FreeIs DEF NoteRows
<1>5. NoteBounds'
  BY <1>1, <1>3, FreeIs DEF NoteBounds, NoteRows
<1>6. session.status # "finalizing" /\ text \notin secret
  BY <1>1 DEF Finalizing, Tagged
<1>7. OpShape' /\ OpText' /\ Finalizing' /\ PrThere' /\ OpenText'
  BY <1>1, <1>2, <1>3, <1>6, FreeIs, SpentOnce DEF OpShape, OpText, Finalizing, PrThere, OpenText, NoteRows
<1>8. Tagged'
  BY <1>1, <1>2, <1>3, <1>6, FreeIs DEF Tagged, RestrictedKept, Finalizing
<1>9. PrKnown'
  BY <1>1, <1>3, FreeIs, StillOpen DEF EndedOne
<1> QED BY <1>4, <1>5, <1>7, <1>8, <1>9

-----------------------------------------------------------------------------
(* Publication: an operation starts *)

\* The lock is free: nobody is at the note.
LEMMA Unlocked ==
  ASSUME NoteInv, ~Locked
  PROVE  op = Free /\ op.name = "none" /\ (Never({"lost", "crash"}) => RowKnows)
BY FreeIs DEF Locked, NoteInv, PrKnown

\* publish takes the lock: its row is in flight, and nothing is open.
LEMMA Publishes ==
  ASSUME NoteInv, NEW by \in {"owner", "auto", "all"}, PublishNote(by)
  PROVE  NoteInv'
<1> USE DEF NoteInv
<1>1. /\ op = Free /\ op.name = "none" /\ Finished /\ ~session.restricted /\ pub.state # "open" /\ pub \in PubRows
      /\ text \in Nat
  BY Unlocked DEF PublishNote, Publishable, NoteRows
<1>2. UNCHANGED <<session, text, used, secret, run>> /\ UNCHANGED gitVars /\ asked' \subseteq {"auto", "all"} /\ Spent
  BY DEF PublishNote, Spent, PublicationEvents, NoteRows
<1>3. /\ pub' \in PubRows /\ pub'.state = "publishing" /\ pub'.pr = 0 /\ pub'.text = pub.text
      /\ op' \in OpRows /\ op'.name = "publish" /\ op'.pc = "branch" /\ op'.text = text /\ op'.blob = 0
  <2>1. /\ pub' = [pub EXCEPT !.state = "publishing", !.pr = 0, !.stale = FALSE]
        /\ op' = [Free EXCEPT !.name = "publish", !.pc = "branch", !.by = by, !.text = text]
    BY DEF PublishNote, Hold
  <2>2. by \in {"none", "owner", "auto", "all", "loop"}
    OBVIOUS
  <2>3. /\ op' \in OpRows /\ op'.name = "publish" /\ op'.pc = "branch" /\ op'.text = text /\ op'.blob = 0
    BY <1>1, <2>1, <2>2 DEF OpRows, Free
  <2>4. pub' \in PubRows /\ pub'.state = "publishing" /\ pub'.pr = 0 /\ pub'.text = pub.text
    BY <1>1, <2>1, PubUpdates
  <2> QED BY <2>3, <2>4
<1>4. GitForward /\ OpenPrs' = OpenPrs /\ prs' = prs
  BY <1>2, GitSame DEF gitVars
<1>5. NoteRows' /\ NoteBounds' /\ OpText' /\ Finalizing' /\ Tagged'
  <2>1. session.status # "finalizing" /\ text \notin secret
    BY <1>1 DEF Finished, Tagged
  <2>2. /\ 0 \in 0..used /\ text \in 0..used /\ pub.text \in 0..used
        /\ 0 \in 0..Len(prs)
    BY PullsAre DEF NoteBounds, NoteRows
  <2> QED BY <1>1, <1>2, <1>3, <1>4, <2>1, <2>2, NoteStands
<1>6. OpShape' /\ PrThere' /\ OpenText'
  BY <1>3 DEF OpShape, PrThere, OpenText
<1>7. PrKnown'
  <2>1. Never({"lost", "crash"})' => OpenPrs = {}
    BY <1>1, <1>2, SpentOnce DEF PrKnown, RowKnows, NoteRows
  <2> QED BY <1>3, <1>4, <2>1 DEF PrKnown, NothingOpen, EndedOne
<1> QED BY <1>5, <1>6, <1>7

\* merge, close and refresh take the lock, and skip that of an open row.
LEMMA Starting ==
  ASSUME NoteInv, ~Locked, pub.state = "open", Spent, UNCHANGED <<localVars, pub, gitVars>>,
         NEW name \in {"merge", "close", "skip", "refresh"}, NEW pc \in {"get", "close"}, NEW by \in {"owner", "loop"},
         Hold(name, pc, by), name \in {"merge", "refresh"} <=> pc = "get",
         name = "refresh" => prs[pub.pr].state # "open"
  PROVE  NoteInv'
<1> USE DEF NoteInv
<1>1. op = Free /\ op.name = "none" /\ pub \in PubRows /\ text \in Nat
  BY Unlocked DEF NoteRows
<1>2. op' \in OpRows /\ op'.name = name /\ op'.pc = pc /\ op'.text = text /\ op'.blob = 0
  <2>1. op' = [Free EXCEPT !.name = name, !.pc = pc, !.by = by, !.text = text]
    BY DEF Hold
  <2>2. /\ name \in {"publish", "edit", "merge", "close", "skip", "refresh", "lift"}
        /\ pc \in {"idle", "branch", "blob", "get", "close"} /\ by \in {"none", "owner", "auto", "all", "loop"}
    OBVIOUS
  <2> QED BY <1>1, <2>1, <2>2 DEF OpRows, Free
<1>3. GitForward /\ OpenPrs' = OpenPrs /\ prs' = prs
  BY GitSame DEF gitVars
<1>4. UNCHANGED <<session, text, used, secret, run>> /\ asked' \subseteq {"auto", "all"}
  BY DEF localVars, NoteRows
<1>5. NoteRows' /\ NoteBounds' /\ OpText' /\ Finalizing' /\ Tagged'
  <2>1. /\ 0 \in 0..used /\ text \in 0..used /\ pub.text \in 0..used
        /\ pub.pr \in 0..Len(prs)
    BY DEF NoteBounds, NoteRows
  <2>2. session.status # "finalizing"
    BY DEF Finalizing, InFlight
  <2> QED BY <1>1, <1>2, <1>3, <1>4, <2>1, <2>2, NoteStands DEF Tagged
<1>6. OpShape'
  BY <1>2 DEF OpShape
<1>7. PrThere'
  BY <1>2, <1>3 DEF PrThere
<1>8. OpenText'
  BY <1>1, <1>2, <1>4, SpentOnce DEF OpenText, NoteRows
<1>9. PrKnown'
  <2>1. Never({"lost", "crash"})' => RowKnows
    BY <1>1, SpentOnce DEF PrKnown, NoteRows
  <2>2. Never({"lost", "crash"})' /\ name = "refresh" => OpenPrs = {}
    BY <2>1 DEF RowKnows, OpenPrs
  <2> QED BY <1>2, <1>3, <2>1, <2>2 DEF PrKnown, RowKnows, NothingOpen, EndedOne
<1> QED BY <1>5, <1>6, <1>7, <1>8, <1>9

\* A row that is not in flight is settled again: nothing is open that it would have to know.
LEMMA RowSettled ==
  ASSUME NoteInv, ~Locked, pub.state # "open", Spent, UNCHANGED <<localVars, op, gitVars>>,
         pub' \in PubRows, pub'.state \notin InFlight, pub'.text \in 0..used, pub'.pr \in 0..Len(prs)
  PROVE  NoteInv'
<1> USE DEF NoteInv
<1>1. op = Free /\ op.name = "none" /\ op' \in OpRows
  BY Unlocked, FreeIs
<1>2. GitForward /\ OpenPrs' = OpenPrs /\ prs' = prs
  BY GitSame DEF gitVars
<1>3. UNCHANGED <<session, text, used, secret, run>> /\ asked' \subseteq {"auto", "all"}
  BY DEF localVars, NoteRows
<1>4. NoteRows' /\ NoteBounds' /\ OpText' /\ Finalizing' /\ Tagged'
  BY <1>1, <1>2, <1>3, NoteStands DEF NoteBounds
<1>5. OpShape' /\ PrThere' /\ OpenText'
  BY <1>1, <1>2 DEF OpShape, PrThere, OpenText, InFlight
<1>6. PrKnown'
  <2>1. Never({"lost", "crash"})' => OpenPrs = {}
    BY <1>1, SpentOnce DEF PrKnown, RowKnows, NoteRows
  <2> QED BY <1>1, <1>2, <2>1 DEF PrKnown, RowKnows, EndedOne
<1> QED BY <1>4, <1>5, <1>6

\* The owner merges, closes, skips or takes a skip back, and the loop refreshes.
LEMMA RowStarts ==
  ASSUME NoteInv, Merge \/ Close \/ Skip \/ Unskip \/ Refresh
  PROVE  NoteInv'
<1> USE DEF NoteInv
<1>1. CASE Merge
  <2>1. Spent /\ pub.state = "open" /\ ~Locked /\ Hold("merge", "get", "owner") /\ UNCHANGED <<localVars, pub, gitVars>>
    BY <1>1 DEF Merge, Spent, PublicationEvents
  <2> QED BY <2>1, Starting
<1>2. CASE Close
  <2>1. Spent /\ pub.state = "open" /\ ~Locked /\ Hold("close", "close", "owner") /\ UNCHANGED <<localVars, pub, gitVars>>
    BY <1>2 DEF Close, Spent, PublicationEvents
  <2> QED BY <2>1, Starting
<1>3. CASE Refresh
  <2>1. /\ Spent /\ pub.state = "open" /\ ~Locked /\ Hold("refresh", "get", "loop") /\ UNCHANGED <<localVars, pub, gitVars>>
        /\ prs[pub.pr].state # "open"
    BY <1>3 DEF Refresh, Spent
  <2> QED BY <2>1, Starting
<1>4. CASE Skip
  <2>1. Spent /\ ~Locked /\ UNCHANGED <<localVars, gitVars>>
    BY <1>4 DEF Skip, Spent, PublicationEvents
  <2>2. CASE pub.state = "open"
    <3>1. Hold("skip", "close", "owner") /\ UNCHANGED pub
      BY <1>4, <2>2 DEF Skip
    <3> QED BY <2>1, <2>2, <3>1, Starting
  <2>3. CASE pub.state # "open"
    <3>1. pub' = [pub EXCEPT !.state = "skipped", !.stale = FALSE] /\ UNCHANGED op
      BY <1>4, <2>3 DEF Skip, Skipped
    <3>2. pub' \in PubRows /\ pub'.state \notin InFlight /\ pub'.text \in 0..used /\ pub'.pr \in 0..Len(prs)
      BY <3>1, PubUpdates DEF NoteRows, NoteBounds, InFlight
    <3> QED BY <2>1, <2>3, <3>1, <3>2, RowSettled
  <2> QED BY <2>2, <2>3
<1>5. CASE Unskip
  <2>1. /\ Spent /\ ~Locked /\ UNCHANGED <<localVars, op, gitVars>> /\ pub.state # "open"
        /\ pub' = NoPublication \/ pub' = [pub EXCEPT !.state = "closed"]
    BY <1>5 DEF Unskip, Spent, PublicationEvents
  <2>2. pub \in PubRows /\ 0 \in 0..used /\ 0 \in 0..Len(prs) /\ pub.text \in 0..used /\ pub.pr \in 0..Len(prs)
    BY PullsAre DEF NoteRows, NoteBounds
  <2>3. pub' \in PubRows /\ pub'.state \notin InFlight /\ pub'.text \in 0..used /\ pub'.pr \in 0..Len(prs)
    <3>1. CASE pub' = NoPublication
      BY <2>2, <3>1, NoPublicationIs DEF InFlight
    <3>2. CASE pub' = [pub EXCEPT !.state = "closed"]
      BY <2>2, <3>2, PubUpdates DEF InFlight, NoteStates
    <3> QED BY <2>1, <3>1, <3>2
  <2> QED BY <2>1, <2>3, RowSettled
<1> QED BY <1>1, <1>2, <1>3, <1>4, <1>5

-----------------------------------------------------------------------------
(* Publication: around the lock *)

\* The note, its row and GitHub are as they were: the session, its run, what is asked for, and a
\* death of the process.
LEMMA Around ==
  ASSUME NoteInv, UNCHANGED <<text, used, secret, pub, gitVars>>, Spent,
         session' \in SessionOf, session'.restricted = session.restricted,
         run' \in {"none", "start", "restricted", "plain", "ready"}, asked' \subseteq {"auto", "all"},
         op' = op \/ (op' = Free /\ Spend("crash")),
         session'.status = "finalizing" => op'.name = "none" /\ pub.state \notin InFlight,
         run' \in {"start", "restricted", "plain"} => session'.status = "finalizing",
         run' = "restricted" => session.restricted
  PROVE  NoteInv'
<1> USE DEF NoteInv
<1>1. GitForward /\ OpenPrs' = OpenPrs /\ prs' = prs /\ branch' = branch /\ vault' = vault
  BY GitSame DEF gitVars
<1>2. /\ budget' \in [PublicationEvents -> Nat]
      /\ Never({"crash"})' => Never({"crash"}) /\ op' = op
      /\ Never({"lost", "crash"})' => Never({"lost", "crash"}) /\ op' = op
  BY SpentOnce DEF NoteRows
<1>3. NoteRows'
  BY <1>1, <1>2, FreeIs DEF NoteRows
<1>4. NoteBounds'
  BY <1>1, FreeIs DEF NoteBounds, NoteRows
<1>5. OpShape' /\ PrThere'
  BY <1>1, FreeIs DEF OpShape, PrThere
<1>6. OpText' /\ Finalizing'
  BY FreeIs DEF OpText, Finalizing
<1>7. Tagged'
  BY <1>1, FreeIs DEF Tagged, RestrictedKept
<1>8. OpenText'
  BY <1>2 DEF OpenText
<1>9. PrKnown'
  BY <1>1, <1>2 DEF PrKnown, RowKnows, NothingOpen, EndedOne
<1> QED BY <1>3, <1>4, <1>5, <1>6, <1>7, <1>8, <1>9

\* The session goes to the trash and back, its note is asked for or written again, the process dies.
LEMMA SessionMoves ==
  ASSUME NoteInv,
         \/ \E by \in {"auto", "all"} : PublishRefused(by)
         \/ Reopen \/ FinalizeRead \/ NoteReady \/ PublishAll
         \/ Delete \/ SetDeadline \/ SoftDeleteDue \/ Restore \/ Age \/ Crash
  PROVE  NoteInv'
<1> USE DEF NoteInv
<1>1. /\ session \in SessionOf /\ run \in {"none", "start", "restricted", "plain", "ready"}
      /\ asked \subseteq {"auto", "all"}
      /\ session.status = "finalizing" => op.name = "none" /\ pub.state \notin InFlight
      /\ run \in {"start", "restricted", "plain"} => session.status = "finalizing"
      /\ run = "restricted" => session.restricted
  BY DEF NoteRows, Finalizing, Tagged
<1>2. ASSUME NEW by \in {"auto", "all"}, PublishRefused(by) PROVE NoteInv'
  <2>1. UNCHANGED <<session, text, used, secret, run, pub, op, gitVars>> /\ asked' \subseteq {"auto", "all"} /\ Spent
    BY <1>1, <1>2 DEF PublishRefused, Spent
  <2> QED BY <1>1, <2>1, Around
<1>3. CASE Reopen
  <2>1. /\ UNCHANGED <<text, used, secret, asked, pub, op, gitVars>> /\ ~Locked /\ pub.state \notin InFlight /\ run' = "start"
        /\ session' = [session EXCEPT !.status = "finalizing"] /\ Spent
    BY <1>3 DEF Reopen, Spent, PublicationEvents
  <2>2. session' \in SessionOf /\ session'.status = "finalizing" /\ session'.restricted = session.restricted
    BY <1>1, <2>1 DEF SessionOf
  <2> QED BY <1>1, <2>1, <2>2, Unlocked, Around
<1>4. CASE FinalizeRead
  <2>1. /\ UNCHANGED <<session, text, used, secret, asked, pub, op, gitVars>> /\ Spent /\ run = "start"
        /\ run' \in {"restricted", "plain"} /\ (run' = "restricted" => session.restricted)
    BY <1>4 DEF FinalizeRead, Spent
  <2> QED BY <1>1, <2>1, Around
<1>5. CASE NoteReady
  <2>1. /\ UNCHANGED <<session, text, used, secret, pub, op, gitVars>> /\ Spent /\ run' = "none"
        /\ asked' \subseteq {"auto", "all"}
    BY <1>1, <1>5 DEF NoteReady, Spent
  <2> QED BY <1>1, <2>1, Around
<1>6. CASE PublishAll
  <2>1. /\ UNCHANGED <<session, text, used, secret, run, pub, op, gitVars>> /\ Spent
        /\ asked' \subseteq {"auto", "all"}
    BY <1>1, <1>6 DEF PublishAll, Spent, PublicationEvents
  <2> QED BY <1>1, <2>1, Around
<1>7. CASE Delete \/ SetDeadline \/ SoftDeleteDue \/ Restore \/ Age
  <2>1. /\ UNCHANGED <<text, used, secret, run, asked, pub, op, gitVars>> /\ Spent
        /\ \/ session' = [session EXCEPT !.deleted = "new"]
           \/ session' = [session EXCEPT !.due = TRUE]
           \/ session' = [session EXCEPT !.deleted = "no", !.due = FALSE]
           \/ session' = [session EXCEPT !.deleted = "old"]
    BY <1>7 DEF Delete, SetDeadline, SoftDeleteDue, Restore, Age, Trash, Spent, PublicationEvents
  <2>2. session' \in SessionOf /\ session'.status = session.status /\ session'.restricted = session.restricted
    BY <1>1, <2>1 DEF SessionOf
  <2> QED BY <1>1, <2>1, <2>2, Around
<1>8. CASE Crash
  <2>1. /\ UNCHANGED <<session, text, used, secret, pub, gitVars>> /\ Spent /\ Spend("crash") /\ op' = Free
        /\ asked' = {} /\ run' = IF session.status = "finalizing" THEN "start" ELSE "none"
    BY <1>8 DEF Crash, Spent, PublicationEvents
  <2> QED BY <1>1, <2>1, FreeIs, Around
<1> QED BY <1>2, <1>3, <1>4, <1>5, <1>6, <1>7, <1>8

\* A text that did not exist is on no branch, in no vault, and without a tag.
LEMMA NewText ==
  ASSUME NoteInv, Fresh
  PROVE  /\ used' \in Nat /\ used' \in 1..used' /\ used' \in 0..used' /\ used' \notin secret
         /\ used' \notin {branch, vault}
         /\ {text, pub.text, op.text, op.blob, branch, vault, 0} \subseteq 0..used' /\ secret \subseteq 1..used'
         /\ \A p \in DOMAIN prs : prs[p].text \in 0..used'
<1> USE DEF NoteInv
<1>1. used \in Nat /\ used' = used + 1
  BY DEF NoteRows, Fresh
<1>2. \A n \in 0..used : n \in 0..used' /\ n # used'
  BY <1>1
<1>3. \A n \in 1..used : n \in 1..used' /\ n # used'
  BY <1>1
<1>4. used' \in Nat /\ used' \in 1..used' /\ used' \in 0..used' /\ 0 \in 0..used
  BY <1>1
<1> QED BY <1>2, <1>3, <1>4 DEF NoteBounds

\* A text is written while nothing is in flight, or pushed by others: what there is to show.
LEMMA Writing ==
  ASSUME NoteInv, Fresh, Spent, UNCHANGED <<pub, prs, vault>>, branch' \in {branch, used'}, text' \in {text, used'},
         secret' = secret \/ (secret' = secret \cup {used'} /\ branch' = branch),
         session' \in SessionOf, run' \in {"none", "start", "restricted", "plain", "ready"},
         asked' \subseteq {"auto", "all"}, op' \in OpRows, op'.text \in {op.text, used', 0}, op'.blob \in {op.blob, 0}
  PROVE  NoteRows' /\ NoteBounds' /\ RestrictedKept' /\ OpenPrs' = OpenPrs
<1> USE DEF NoteInv
<1>1. budget' \in [PublicationEvents -> Nat]
  BY SpentOnce DEF NoteRows
<1>2. NoteRows'
  BY <1>1, NewText DEF NoteRows
<1>3. NoteBounds'
  BY NewText DEF NoteBounds
<1>4. RestrictedKept'
  BY NewText DEF RestrictedKept, Tagged
<1> QED BY <1>2, <1>3, <1>4 DEF OpenPrs

\* Somebody pushes to the branch.
LEMMA Pushes ==
  ASSUME NoteInv, OutsidePush
  PROVE  NoteInv'
<1> USE DEF NoteInv
<1>1. /\ Fresh /\ Spent /\ branch' = used'
      /\ UNCHANGED <<session, text, secret, run, asked, pub, op, prs, vault>>
  BY DEF OutsidePush, Spent, PublicationEvents
<1>2. NoteRows' /\ NoteBounds' /\ RestrictedKept' /\ OpenPrs' = OpenPrs
  BY <1>1, Writing DEF NoteRows
<1>3. OpShape' /\ OpText' /\ Finalizing' /\ PrThere'
  BY <1>1 DEF OpShape, OpText, Finalizing, PrThere
<1>4. Tagged'
  BY <1>1, <1>2 DEF Tagged
<1>5. OpenText' /\ PrKnown'
  BY <1>1, <1>2, SpentOnce DEF OpenText, PrKnown, RowKnows, NothingOpen, EndedOne, NoteRows
<1> QED BY <1>2, <1>3, <1>4, <1>5

\* The owner replaces the note; that of an open row goes on to GitHub.
LEMMA Edits ==
  ASSUME NoteInv, EditNote
  PROVE  NoteInv'
<1> USE DEF NoteInv
<1> DEFINE next == [Free EXCEPT !.name = "edit", !.pc = "blob", !.text = used']
<1>1. /\ op = Free /\ op.name = "none" /\ Finished /\ Fresh /\ Spent /\ text' = used'
      /\ UNCHANGED <<session, run, asked, pub, gitVars>>
      /\ secret' = secret \/ (secret' = secret \cup {used'} /\ session.restricted)
      /\ op' = IF pub.state = "open" THEN next ELSE op
  BY Unlocked DEF EditNote, Spent, PublicationEvents
<1>2. next \in OpRows /\ next.name = "edit" /\ next.pc = "blob" /\ next.text = used' /\ next.blob = 0
  <2>1. used' \in Nat
    BY <1>1, NewText
  <2> QED BY <2>1 DEF OpRows, Free
<1> HIDE DEF next
<1>3. UNCHANGED <<branch, prs, vault>>
  BY <1>1 DEF gitVars
<1>4. NoteRows' /\ NoteBounds' /\ RestrictedKept' /\ OpenPrs' = OpenPrs
  BY <1>1, <1>2, <1>3, FreeIs, Writing DEF NoteRows
<1>5. pub.state = "open" => secret' = secret /\ used' \notin secret
  BY <1>1, NewText DEF Tagged, InFlight
<1>6. OpShape' /\ OpText' /\ Finalizing' /\ PrThere' /\ OpenText'
  BY <1>1, <1>2, <1>3 DEF OpShape, OpText, Finalizing, Finished, PrThere, OpenText
<1>7. Tagged'
  <2>1. text' \in secret' => session.restricted
    BY <1>1, NewText
  <2> QED BY <1>1, <1>2, <1>4, <1>5, <2>1 DEF Tagged
<1>8. PrKnown'
  BY <1>1, <1>2, <1>3, <1>4, SpentOnce DEF PrKnown, RowKnows, NothingOpen, EndedOne, NoteRows
<1> QED BY <1>4, <1>6, <1>7, <1>8

\* The note of a restricted session is filed again without its tag.
LEMMA LiftStarts ==
  ASSUME NoteInv, LiftMove
  PROVE  NoteInv'
<1> USE DEF NoteInv
<1> DEFINE next == [Free EXCEPT !.name = "lift"]
<1>1. /\ op = Free /\ op.name = "none" /\ Finished /\ session.restricted /\ Spent /\ op' = next
      /\ (Fresh /\ text' = used') \/ (text = 0 /\ UNCHANGED <<text, used>>)
      /\ UNCHANGED <<session, secret, run, asked, pub, gitVars>>
  BY Unlocked DEF LiftMove, Spent, PublicationEvents
<1>2. next \in OpRows /\ next.name = "lift" /\ next.pc = "idle" /\ next.text = 0 /\ next.blob = 0
  BY DEF OpRows, Free
<1> HIDE DEF next
<1>3. UNCHANGED <<branch, prs, vault>>
  BY <1>1 DEF gitVars
<1>4. NoteRows' /\ NoteBounds' /\ RestrictedKept' /\ OpenPrs' = OpenPrs
  <2>1. CASE Fresh /\ text' = used'
    BY <1>1, <1>2, <1>3, <2>1, Writing DEF NoteRows
  <2>2. CASE text = 0 /\ UNCHANGED <<text, used>>
    <3>1. budget' \in [PublicationEvents -> Nat]
      BY <1>1, SpentOnce DEF NoteRows
    <3>2. NoteRows'
      BY <1>1, <1>2, <1>3, <2>2, <3>1 DEF NoteRows
    <3>3. 0 \in 0..used
      BY DEF NoteRows
    <3> QED BY <1>1, <1>2, <1>3, <2>2, <3>2, <3>3 DEF NoteBounds, RestrictedKept, Tagged, OpenPrs
  <2> QED BY <1>1, <2>1, <2>2
<1>5. text' \notin secret
  BY <1>1, NewText DEF NoteBounds
<1>6. pub.state \notin InFlight
  BY <1>1 DEF Tagged
<1>7. OpShape' /\ OpText' /\ Finalizing' /\ PrThere' /\ OpenText'
  BY <1>1, <1>2, <1>3, <1>6 DEF OpShape, OpText, Finalizing, Finished, PrThere, OpenText, InFlight
<1>8. Tagged'
  BY <1>1, <1>2, <1>4, <1>5 DEF Tagged
<1>9. PrKnown'
  BY <1>1, <1>2, <1>3, <1>4, SpentOnce DEF PrKnown, RowKnows, NothingOpen, EndedOne, NoteRows
<1> QED BY <1>4, <1>7, <1>8, <1>9

\* The finalizer writes its note, tagged if the session was restricted when it read it.
LEMMA Finalizes ==
  ASSUME NoteInv, FinalizeWrite
  PROVE  NoteInv'
<1> USE DEF NoteInv
<1>1. /\ run \in {"restricted", "plain"} /\ Fresh /\ Spent /\ text' = used' /\ run' = "ready"
      /\ secret' = secret \/ (secret' = secret \cup {used'} /\ run = "restricted")
      /\ session' = [session EXCEPT !.status = "done"] /\ UNCHANGED <<asked, pub, op, gitVars>>
  BY DEF FinalizeWrite, Spent
<1>2. session' \in SessionOf /\ session'.status = "done" /\ session'.restricted = session.restricted
  BY <1>1 DEF NoteRows, SessionOf
<1>3. op.name = "none" /\ pub.state \notin InFlight /\ op = Free
  BY <1>1 DEF Finalizing, OpShape
<1>4. UNCHANGED <<branch, prs, vault>>
  BY <1>1 DEF gitVars
<1>5. NoteRows' /\ NoteBounds' /\ RestrictedKept' /\ OpenPrs' = OpenPrs
  BY <1>1, <1>2, <1>4, Writing DEF NoteRows
<1>6. text' \in secret' => session.restricted
  BY <1>1, NewText DEF Tagged
<1>7. OpShape' /\ OpText' /\ Finalizing' /\ PrThere' /\ OpenText'
  BY <1>1, <1>2, <1>3, <1>4 DEF OpShape, OpText, Finalizing, PrThere, OpenText, InFlight
<1>8. Tagged'
  BY <1>1, <1>2, <1>3, <1>5, <1>6 DEF Tagged
<1>9. PrKnown'
  BY <1>1, <1>3, <1>4, <1>5, SpentOnce DEF PrKnown, RowKnows, NothingOpen, EndedOne, NoteRows
<1> QED BY <1>5, <1>7, <1>8, <1>9

\* A session is purged with its note and its row, which was not in flight.
LEMMA Purging ==
  ASSUME NoteInv, PurgeNote
  PROVE  NoteInv'
<1> USE DEF NoteInv
<1>1. /\ pub.state \notin InFlight /\ session' = [session EXCEPT !.gone = TRUE] /\ text' = 0 /\ pub' = NoPublication
      /\ UNCHANGED <<used, secret, run, asked, op, gitVars>> /\ Spent
  BY DEF PurgeNote, Spent
<1>2. session' \in SessionOf /\ session'.status = session.status /\ session'.restricted = session.restricted
  BY <1>1 DEF NoteRows, SessionOf
<1>3. UNCHANGED <<branch, prs, vault>>
  BY <1>1 DEF gitVars
<1>4. NoteRows'
  BY <1>1, <1>2, <1>3, SpentOnce, NoPublicationIs DEF NoteRows
<1>5. NoteBounds'
  <2>1. 0 \in 0..used /\ 0 \in 0..Len(prs)
    BY PullsAre DEF NoteRows
  <2> QED BY <1>1, <1>3, <2>1, NoPublicationIs DEF NoteBounds
<1>6. op.name \notin {"publish", "edit"} /\ 0 \notin secret /\ pub'.state = "none"
  BY <1>1, NoPublicationIs DEF OpShape, InFlight, NoteBounds
<1>7. OpShape'
  BY <1>1, <1>6 DEF OpShape, InFlight
<1>8. OpText' /\ Finalizing' /\ OpenText'
  BY <1>1, <1>2, <1>6 DEF OpText, Finalizing, InFlight, OpenText
<1>9. PrThere'
  BY <1>1, <1>3, <1>6, <1>7 DEF PrThere, OpShape
<1>10. Tagged'
  BY <1>1, <1>2, <1>3, <1>6 DEF Tagged, RestrictedKept, InFlight
<1>11. PrKnown'
  BY <1>1, <1>3, <1>6, SpentOnce DEF PrKnown, RowKnows, NothingOpen, EndedOne, NoteRows, OpenPrs, InFlight
<1> QED BY <1>4, <1>5, <1>7, <1>8, <1>9, <1>10, <1>11

\* Somebody merges or closes a pull request.
LEMMA EndsElsewhere ==
  ASSUME NoteInv, NEW p \in DOMAIN prs, OutsideEnds(p)
  PROVE  NoteInv'
<1> USE DEF NoteInv
<1>1. /\ Spent /\ UNCHANGED <<localVars, pub, op, branch>>
      /\ (End(p, "merged") /\ vault' = branch) \/ (End(p, "closed") /\ UNCHANGED vault)
  BY DEF OutsideEnds, Spent, PublicationEvents
<1>2. GitForward /\ OpenPrs' \subseteq OpenPrs /\ Len(prs') = Len(prs)
  <2>1. GitForward /\ OpenPrs' = OpenPrs \ {p}
    BY <1>1, GitEnds
  <2>2. Len(prs') = Len(prs)
    <3>1. DOMAIN prs' = DOMAIN prs
      BY <1>1 DEF End
    <3>2. DOMAIN prs' = 1..Len(prs') /\ Len(prs') \in Nat
      BY <2>1 DEF GitForward
    <3>3. Len(prs) <= Len(prs')
      BY <2>1 DEF GitForward
    <3> QED BY <3>1, <3>2, <3>3, PullsAre
  <2> QED BY <2>1, <2>2
<1>3. /\ UNCHANGED <<session, text, used, secret, run>> /\ asked' \subseteq {"auto", "all"}
      /\ op' \in OpRows /\ pub' \in PubRows /\ op'.text \in 0..used /\ op'.blob \in 0..used /\ pub'.text \in 0..used
      /\ pub'.pr \in 0..Len(prs')
  BY <1>1, <1>2 DEF localVars, NoteRows, NoteBounds
<1>4. NoteRows' /\ NoteBounds' /\ OpText' /\ Finalizing' /\ Tagged'
  <2>1. /\ op'.name \in {"publish", "edit"} => op'.text = text /\ text \notin secret
        /\ session.restricted => pub'.state \notin InFlight
        /\ session.status = "finalizing" => op'.name = "none" /\ pub'.state \notin InFlight
    BY <1>1 DEF OpText, Tagged, Finalizing
  <2> QED BY <1>1, <1>2, <1>3, <2>1, NoteStands
<1>5. OpShape' /\ OpenText'
  BY <1>1, <1>3, SpentOnce DEF OpShape, OpenText, NoteRows
<1>6. PrThere'
  BY <1>1, <1>2 DEF PrThere, GitForward, OpShape
<1>7. PrKnown'
  BY <1>1, <1>2, SpentOnce DEF PrKnown, RowKnows, NothingOpen, EndedOne, NoteRows
<1> QED BY <1>4, <1>5, <1>6, <1>7

\* Every step preserves the invariant.
LEMMA NoteStep ==
  ASSUME NoteInv, [PublicationNext]_publicationVars
  PROVE  NoteInv'
<1>1. CASE UNCHANGED publicationVars
  <2>1. UNCHANGED <<text, used, secret, pub, gitVars, session, run, asked, op>> /\ Spent
    BY <1>1 DEF publicationVars, localVars, gitVars, Spent
  <2> QED BY <2>1, Around DEF NoteInv, NoteRows, Finalizing, Tagged
<1>2. CASE OwnerActs
  BY <1>2, Publishes, Edits, RowStarts, SessionMoves, LiftStarts DEF OwnerActs
<1>3. CASE Others
  BY <1>3, Pushes, EndsElsewhere, SessionMoves DEF Others
<1>4. CASE Serve
  BY <1>4, Publishing, Opening, Recording, Editing, MergeLooks, MergeCalls, Dropping, MergeRecords, Closing,
     CloseRecords, SkipRecords, Refreshing, LiftEnds DEF Serve
<1>5. CASE Automatic
  BY <1>5, Publishes, SessionMoves DEF Automatic
<1>6. CASE Note \/ Refresh \/ Sweep \/ Age
  BY <1>6, SessionMoves, Finalizes, RowStarts, Purging DEF Note, Sweep
<1> QED BY <1>1, <1>2, <1>3, <1>4, <1>5, <1>6 DEF PublicationNext

\* The row, the note and GitHub agree: an open row shows the note as it is in the outbox, no text
\* with the restriction's tag is on the branch or in the vault, and no pull request is open that the
\* row does not know, whatever the owner, the loop, GitHub's users, the trash and a death do.
THEOREM NoteStaysSound == PublicationInit /\ [][PublicationNext]_publicationVars => []NoteSound
<1>1. PublicationInit => NoteInv
  BY NoteInitInv
<1>2. NoteInv /\ [PublicationNext]_publicationVars => NoteInv'
  BY NoteStep
<1>3. NoteInv => NoteSound
  BY NoteInvSays
<1> QED BY <1>1, <1>2, <1>3, PTL

\* What a call of the lock's holder does to the vault: nothing, but for a merge at its head.
LEMMA VaultMoves ==
  ASSUME NoteInv, [PublicationNext]_publicationVars, op.pc = "merge", op' # op, vault' # vault
  PROVE  vault' = pub.text
<1> USE DEF NoteInv
<1>1. op.name = "merge"
  BY FreeIs DEF OpShape, NoteRows, OpRows
<1>2. op # Free
  BY <1>1, FreeIs
<1>3. CASE MergeCall
  <2>1. Mergeable(pub.pr, pub.text) /\ MergePr(pub.pr)
    BY <1>3 DEF MergeCall, Call, gitVars
  <2> QED BY <2>1 DEF Mergeable, MergePr
<1>4. CASE UNCHANGED publicationVars
  BY <1>4 DEF publicationVars
<1>5. ~OwnerActs
  BY <1>2 DEF OwnerActs, PublishNote, EditNote, Merge, Close, Skip, Unskip, Reopen, PublishAll, LiftMove, Delete,
     SetDeadline, Restore, Locked, gitVars
<1>6. ~Others
  BY DEF Others, OutsidePush, OutsideEnds, Crash, gitVars
<1>7. ~(Automatic \/ Note \/ Refresh \/ Sweep \/ Age)
  BY DEF Automatic, PublishNote, PublishRefused, Note, FinalizeRead, FinalizeWrite, NoteReady, Refresh, Sweep,
     SoftDeleteDue, PurgeNote, Age, gitVars
<1>8. Serve => MergeCall
  BY <1>1 DEF Serve, PublishBranch, PublishBlob, PublishPut, PublishPr, PublishRecord, EditBlob, EditPut, EditRecord,
     MergeGet, DropBranch, MergeRecord, CloseCall, CloseRecord, SkipRecord, RefreshGet, LiftClear, At, ReadBlob
<1> QED BY <1>3, <1>4, <1>5, <1>6, <1>7, <1>8 DEF PublicationNext

\* What a merge from here puts into the vault is the text this server last published or pushed,
\* whatever has happened to the branch since get_pr looked at it.
THEOREM MergesAsPushed == PublicationInit /\ [][PublicationNext]_publicationVars => MergedAsPushed
<1>1. PublicationInit => NoteInv
  BY NoteInitInv
<1>2. NoteInv /\ [PublicationNext]_publicationVars => NoteInv'
  BY NoteStep
<1>3. NoteInv /\ [PublicationNext]_publicationVars =>
      [op.pc = "merge" /\ op' # op /\ vault' # vault => vault' = pub.text]_publicationVars
  BY VaultMoves
<1> QED BY <1>1, <1>2, <1>3, PTL DEF MergedAsPushed

-----------------------------------------------------------------------------
(* What surrounds a session, as the run composes it *)

\* A step of the whole is a step of one part, and the others stand.
LEMMA Parts ==
  /\ Init => AccountInit /\ RecordingInit /\ BackupInit /\ PublicationInit
  /\ [Next]_vars => /\ [AccountNext]_accountVars /\ [RecordingNext]_recordingVars
                    /\ [BackupNext]_backupVars /\ [PublicationNext]_publicationVars
BY DEF Init, Next, vars

\* Accounts, uploads, backups and the note hold up next to each other.
THEOREM PlatformHolds == Spec => [](OnceOnly /\ UploadOnceWhole /\ BackupsSound /\ NoteSound)
<1>1. Spec => AccountInit /\ [][AccountNext]_accountVars
  BY Parts, PTL DEF Spec
<1>2. Spec => RecordingInit /\ [][RecordingNext]_recordingVars
  BY Parts, PTL DEF Spec
<1>3. Spec => BackupInit /\ [][BackupNext]_backupVars
  BY Parts, PTL DEF Spec
<1>4. Spec => PublicationInit /\ [][PublicationNext]_publicationVars
  BY Parts, PTL DEF Spec
<1> QED BY <1>1, <1>2, <1>3, <1>4, EverythingOnce, UploadedOnceWhole, BackupsAreSound, NoteStaysSound, PTL

\* A login that was logged out and a device that was revoked stay so, only its logout or its expiry
\* signs a browser out, and a merge puts into the vault what was last pushed.
THEOREM NothingComesBack == Spec => PlatformForward
<1>1. Spec => AccountInit /\ [][AccountNext]_accountVars
  BY Parts, PTL DEF Spec
<1>2. Spec => PublicationInit /\ [][PublicationNext]_publicationVars
  BY Parts, PTL DEF Spec
<1> QED BY <1>1, <1>2, LoginsStayHonest, MergesAsPushed, PTL DEF PlatformForward
=============================================================================
