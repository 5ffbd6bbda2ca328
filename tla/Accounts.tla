------------------------------ MODULE Accounts ------------------------------
(* Who may call: signing in with Pocket-ID, the users it creates, browser   *)
(* logins, device codes and devices, WebSocket tickets and stream keys:     *)
(* server/src/jarvis_live/auth.py, api/auth.py, api/account.py, oidc.py,    *)
(* users.py and streams/keys.py.                                            *)
(*                                                                          *)
(* A secret is the slot it was made in: only its hash is stored, and nobody *)
(* guesses one.  Every person has the same slug, the worst case for the     *)
(* names of the notes folders.                                              *)
EXTENDS Naturals, FiniteSets, FiniteSetsExt

CONSTANTS
  People,    \* OIDC subjects, one of them OwnerPerson
  OwnerPerson, \* the one whose verified email is owner_email
  MaxUsers,  \* bound: accounts besides the owner's
  Flows,     \* sign-ins in flight
  Calls,     \* requests that redeem a code or use a cookie
  MaxKeys,   \* bound: keys made for one path
  AccountScenarios

AccountEvents == {"login", "redeem", "use", "logout", "expire", "claim", "revoke", "ticket", "key", "failed"}
ASSUME AccountAssumption ==
  /\ OwnerPerson \in People /\ {MaxUsers, MaxKeys} \subseteq Nat
  /\ \A s \in AccountScenarios : s \in [AccountEvents -> Nat]
\* A call that redeems nothing names flow 0.
ASSUME NoFlowZero == 0 \notin Flows

VARIABLES
  users,    \* per account: whether it is there, its subject, its folder, its rows elsewhere
  flows,    \* per sign-in: where it stands, what it read
  logins,   \* login_sessions: made by a flow
  codes,    \* device_codes: made by a flow
  devices,  \* devices: made by a call
  calls,    \* redeeming and cookie requests
  tickets,  \* TicketStore: made by a flow's login; how often each was redeemed
  pathKeys, \* ingest_keys of one path, in the order they were made
  counted   \* the events so far, bounded by AccountScenarios

accountVars == <<users, flows, logins, codes, devices, calls, tickets, pathKeys, counted>>

Owner == 0
AccountIds == 0..MaxUsers
NoUser == [there |-> FALSE, sub |-> "none", folder |-> 0, rows |-> FALSE]
NoFlow == [pc |-> "idle", who |-> "none", client |-> "web", user |-> Owner, claims |-> FALSE,
           make |-> FALSE, folder |-> 0]
NoCred == [state |-> "none", user |-> Owner]
NoCall == [pc |-> "idle", flow |-> 0, read |-> NoCred]
NoTicket == [state |-> "none", uses |-> 0]

Able(e) == \E most \in AccountScenarios : counted[e] < most[e] /\ \A f \in AccountEvents : counted[f] <= most[f]
Counts(e) == Able(e) /\ counted' = [counted EXCEPT ![e] = @ + 1]

----------------------------------------------------------------------------
(* Signing in.                                                              *)
Login(f) ==
  /\ flows[f].pc = "idle" /\ Counts("login")
  /\ \E who \in People, client \in {"web", "android"} :
       flows' = [flows EXCEPT ![f] = [NoFlow EXCEPT !.pc = "away", !.who = who, !.client = client]]
  /\ UNCHANGED <<users, logins, codes, devices, calls, tickets, pathKeys>>

\* The callback consumes its flow, whatever comes of it: an expired link, a refusal by the
\* provider, an unknown key, a nonce that does not match, a group that is not let in.
SignInFails(f) ==
  /\ flows[f].pc \in {"away", "exchange"} /\ Counts("failed")
  /\ flows' = [flows EXCEPT ![f] = [NoFlow EXCEPT !.pc = "over"]]
  /\ UNCHANGED <<users, logins, codes, devices, calls, tickets, pathKeys>>

Callback(f) ==
  /\ flows[f].pc = "away"
  /\ flows' = [flows EXCEPT ![f].pc = "exchange"]
  /\ UNCHANGED <<users, logins, codes, devices, calls, tickets, pathKeys, counted>>

With(sub) == {u \in AccountIds : users[u].there /\ users[u].sub = sub}
FreeFolder == Min({n \in 1..(MaxUsers + 1) : \A u \in AccountIds : users[u].there => users[u].folder # n})
\* Ids are not given twice.
Gone == [NoUser EXCEPT !.sub = "gone"]
FreeAccount == {u \in AccountIds : users[u] = NoUser /\ \A v \in AccountIds : v < u => users[v] # NoUser}

\* sign_in reads: the account of the subject, the unclaimed owner's for the owner's email, or
\* none, and then a free folder.
SignInRead(f) ==
  /\ flows[f].pc = "exchange"
  /\ LET who == flows[f].who
         claims == who = OwnerPerson /\ users[Owner].sub = "none"
     IN  flows' = [flows EXCEPT ![f] =
           IF With(who) # {} THEN [flows[f] EXCEPT !.pc = "commit", !.user = CHOOSE u \in With(who) : TRUE]
           ELSE IF claims THEN [flows[f] EXCEPT !.pc = "commit", !.user = Owner, !.claims = TRUE]
           ELSE [flows[f] EXCEPT !.pc = "commit", !.make = TRUE, !.folder = FreeFolder]]
  /\ UNCHANGED <<users, logins, codes, devices, calls, tickets, pathKeys, counted>>

\* What the commit would write (the subject of an account found by it is not written), and whether
\* a unique column refuses it.
Made(f, u) == [there |-> TRUE, sub |-> flows[f].who, folder |-> flows[f].folder, rows |-> FALSE]
Clashes(f) ==
  \/ \E u \in AccountIds : users[u].there /\ users[u].sub = flows[f].who
                           /\ (flows[f].make \/ (flows[f].claims /\ u # flows[f].user))
  \/ flows[f].make /\ \E u \in AccountIds : users[u].there /\ users[u].folder = flows[f].folder
  \/ ~flows[f].make /\ ~users[flows[f].user].there

SignInCommit(f) ==
  /\ flows[f].pc = "commit"
  /\ IF Clashes(f)
     THEN flows' = [flows EXCEPT ![f] = [NoFlow EXCEPT !.pc = "over"]] /\ UNCHANGED users
     ELSE /\ flows[f].make => FreeAccount # {}
          /\ LET u == IF flows[f].make THEN CHOOSE v \in FreeAccount : TRUE ELSE flows[f].user
             IN  /\ users' = [users EXCEPT ![u] = IF flows[f].make THEN Made(f, u)
                                                  ELSE IF flows[f].claims THEN [users[u] EXCEPT !.sub = flows[f].who]
                                                  ELSE users[u]]
                 /\ flows' = [flows EXCEPT ![f].pc = "issue", ![f].user = u]
  /\ UNCHANGED <<logins, codes, devices, calls, tickets, pathKeys, counted>>

\* A cookie for the browser, a one-time code for the app.  A user removed meanwhile has no row
\* for them to point at.
Issue(f) ==
  /\ flows[f].pc = "issue"
  /\ flows' = [flows EXCEPT ![f].pc = "over"]
  /\ LET cred == [state |-> "fresh", user |-> flows[f].user]
     IN  IF ~users[flows[f].user].there THEN UNCHANGED <<logins, codes>>
         ELSE IF flows[f].client = "web" THEN logins' = [logins EXCEPT ![f] = cred] /\ UNCHANGED codes
         ELSE codes' = [codes EXCEPT ![f] = cred] /\ UNCHANGED logins
  /\ UNCHANGED <<users, devices, calls, tickets, pathKeys, counted>>

----------------------------------------------------------------------------
(* redeem_device_code.                                                      *)
\* A mutant: the code is looked up first and marked used with its device.
RedeemLate(c, f) ==
  /\ calls[c].pc = "idle" /\ codes[f].state = "fresh" /\ Counts("redeem")
  /\ calls' = [calls EXCEPT ![c] = [pc |-> "device", flow |-> f, read |-> codes[f]]]
  /\ UNCHANGED <<users, flows, logins, codes, devices, tickets, pathKeys>>

\* One UPDATE ... RETURNING consumes the code, whatever the verifier is worth.
Redeem(c, f) ==
  /\ calls[c].pc = "idle" /\ codes[f].state = "fresh" /\ Counts("redeem")
  /\ codes' = [codes EXCEPT ![f].state = "used"]
  /\ \E right \in BOOLEAN :
       calls' = [calls EXCEPT ![c] = IF right THEN [pc |-> "device", flow |-> f, read |-> codes[f]]
                                    ELSE [NoCall EXCEPT !.pc = "over"]]
  /\ UNCHANGED <<users, flows, logins, devices, tickets, pathKeys>>

\* create_device for the user the code named, if that user is still there.
CreateDevice(c) ==
  /\ calls[c].pc = "device"
  /\ calls' = [calls EXCEPT ![c].pc = "over"]
  /\ IF users[calls[c].read.user].there
     THEN devices' = [devices EXCEPT ![c] = [state |-> "fresh", user |-> calls[c].read.user]]
     ELSE UNCHANGED devices
  /\ UNCHANGED <<users, flows, logins, codes, tickets, pathKeys, counted>>

\* add_device, from a signed-in browser only, and the other things a user comes to have.
AddDevice(c, f) ==
  /\ calls[c].pc = "idle" /\ logins[f].state = "fresh" /\ Counts("redeem")
  /\ calls' = [calls EXCEPT ![c] = [pc |-> "over", flow |-> 0, read |-> NoCred]]
  /\ devices' = [devices EXCEPT ![c] = [state |-> "fresh", user |-> logins[f].user]]
  /\ \E rows \in BOOLEAN : users' = [users EXCEPT ![logins[f].user].rows = @ \/ rows]
  /\ UNCHANGED <<flows, logins, codes, tickets, pathKeys>>

RevokeDevice(c) ==
  /\ devices[c].state = "fresh" /\ Counts("revoke")
  /\ devices' = [devices EXCEPT ![c].state = "revoked"]
  /\ UNCHANGED <<users, flows, logins, codes, calls, tickets, pathKeys>>

----------------------------------------------------------------------------
(* current_principal with a cookie: the login is read, and past half of its *)
(* time it is given the whole of it again.                                  *)
ReadCookie(c, f) ==
  /\ calls[c].pc = "idle" /\ logins[f].state \in {"fresh", "half"} /\ Counts("use")
  /\ calls' = [calls EXCEPT ![c] = IF logins[f].state = "half" THEN [pc |-> "slide", flow |-> f, read |-> logins[f]]
                                   ELSE [NoCall EXCEPT !.pc = "over"]]
  /\ UNCHANGED <<users, flows, logins, codes, devices, tickets, pathKeys>>

\* An UPDATE of the row, if it is still there.
Slide(c) ==
  /\ calls[c].pc = "slide"
  /\ LET f == calls[c].flow
     IN  logins' = IF logins[f].state \in {"half", "expired"} THEN [logins EXCEPT ![f].state = "fresh"] ELSE logins
  /\ calls' = [calls EXCEPT ![c] = [NoCall EXCEPT !.pc = "over"]]
  /\ UNCHANGED <<users, flows, codes, devices, tickets, pathKeys, counted>>

Logout(f) ==
  /\ logins[f].state \in {"fresh", "half", "expired"} /\ Counts("logout")
  /\ logins' = [logins EXCEPT ![f].state = "out"]
  /\ UNCHANGED <<users, flows, codes, devices, calls, tickets, pathKeys>>

Expire(f) ==
  /\ Counts("expire")
  /\ \/ logins[f].state = "fresh" /\ logins' = [logins EXCEPT ![f].state = "half"] /\ UNCHANGED <<codes, tickets>>
     \/ logins[f].state = "half" /\ logins' = [logins EXCEPT ![f].state = "expired"] /\ UNCHANGED <<codes, tickets>>
     \/ codes[f].state = "fresh" /\ codes' = [codes EXCEPT ![f].state = "expired"] /\ UNCHANGED <<logins, tickets>>
     \/ tickets[f].state = "fresh" /\ tickets' = [tickets EXCEPT ![f].state = "expired"] /\ UNCHANGED <<logins, codes>>
  /\ UNCHANGED <<users, flows, devices, calls, pathKeys>>

----------------------------------------------------------------------------
(* claim_owner: in one transaction the devices, sessions, logins and codes  *)
(* of the user move to the owner and the user is removed.  Rows of other    *)
(* tables keep the database from removing it, and then nothing changes.     *)

ClaimOwner(u) ==
  /\ u # Owner /\ users[u].there /\ ~users[u].rows /\ Counts("claim")
  /\ LET Moved(cred) == [cred EXCEPT !.user = IF @ = u THEN Owner ELSE @]
     IN  /\ logins' = [f \in Flows |-> Moved(logins[f])]
         /\ codes' = [f \in Flows |-> Moved(codes[f])]
         /\ devices' = [c \in Calls |-> Moved(devices[c])]
  /\ users' = [users EXCEPT ![u] = Gone, ![Owner].sub = users[u].sub]
  /\ UNCHANGED <<flows, calls, tickets, pathKeys>>

----------------------------------------------------------------------------
(* TicketStore, and the keys of one stream path.                            *)
IssueTicket(f) ==
  /\ logins[f].state = "fresh" /\ tickets[f].state = "none" /\ Counts("ticket")
  /\ tickets' = [tickets EXCEPT ![f].state = "fresh"]
  /\ UNCHANGED <<users, flows, logins, codes, devices, calls, pathKeys>>

\* Consumed by the first attempt, for another session too.
RedeemTicket(f) ==
  /\ tickets[f].state = "fresh" /\ Counts("ticket")
  /\ \E same \in BOOLEAN :
       tickets' = [tickets EXCEPT ![f] = [state |-> "used", uses |-> IF same THEN @.uses + 1 ELSE @.uses]]
  /\ UNCHANGED <<users, flows, logins, codes, devices, calls, pathKeys>>

Active == {k \in DOMAIN pathKeys : pathKeys[k] = "active"}
FreshKey(keysNow) == \E k \in DOMAIN keysNow : /\ keysNow[k] = "none" /\ \A j \in 1..(k - 1) : keysNow[j] # "none"
                                               /\ pathKeys' = [keysNow EXCEPT ![k] = "active"]
Revoked == [k \in DOMAIN pathKeys |-> IF pathKeys[k] = "active" THEN "revoked" ELSE pathKeys[k]]

\* The index over the active names refuses a second key.
CreateKey == Active = {} /\ Counts("key") /\ FreshKey(pathKeys)
             /\ UNCHANGED <<users, flows, logins, codes, devices, calls, tickets>>
\* The old row is locked and leaves the index before the new one enters it.
RotateKey == Active # {} /\ Counts("key") /\ FreshKey(Revoked)
             /\ UNCHANGED <<users, flows, logins, codes, devices, calls, tickets>>
RevokeActiveKey == Active # {} /\ Counts("key") /\ pathKeys' = Revoked
             /\ UNCHANGED <<users, flows, logins, codes, devices, calls, tickets>>

----------------------------------------------------------------------------
AccountInit ==
  /\ users = [u \in AccountIds |-> IF u = Owner THEN [NoUser EXCEPT !.there = TRUE] ELSE NoUser]
  /\ flows = [f \in Flows |-> NoFlow] /\ logins = [f \in Flows |-> NoCred] /\ codes = [f \in Flows |-> NoCred]
  /\ devices = [c \in Calls |-> NoCred] /\ calls = [c \in Calls |-> NoCall]
  /\ tickets = [f \in Flows |-> NoTicket] /\ pathKeys = [k \in 1..MaxKeys |-> "none"]
  /\ counted = [e \in AccountEvents |-> 0]

AccountNext ==
  \/ \E f \in Flows :
       \/ Login(f) \/ SignInFails(f) \/ Callback(f) \/ SignInRead(f) \/ SignInCommit(f) \/ Issue(f)
       \/ Logout(f) \/ Expire(f) \/ IssueTicket(f) \/ RedeemTicket(f)
       \/ \E c \in Calls : Redeem(c, f) \/ AddDevice(c, f) \/ ReadCookie(c, f)
  \/ \E c \in Calls : CreateDevice(c) \/ RevokeDevice(c) \/ Slide(c)
  \/ \E u \in AccountIds : ClaimOwner(u)
  \/ CreateKey \/ RotateKey \/ RevokeActiveKey

----------------------------------------------------------------------------
\* The rows of users and credentials, and the requests that are on their way.
AccountTypeOK ==
  /\ users \in [AccountIds -> [there : BOOLEAN, sub : People \cup {"none", "gone"}, folder : Nat, rows : BOOLEAN]]
  /\ \A f \in Flows : /\ flows[f].pc \in {"idle", "away", "exchange", "commit", "issue", "over"}
                     /\ flows[f].client \in {"web", "android"}
                     /\ {flows[f].user, logins[f].user, codes[f].user} \subseteq AccountIds
                     /\ logins[f].state \in {"none", "fresh", "half", "expired", "out"}
                     /\ codes[f].state \in {"none", "fresh", "used", "expired"}
                     /\ tickets[f].state \in {"none", "fresh", "used", "expired"} /\ tickets[f].uses \in Nat
  /\ \A c \in Calls : /\ calls[c].pc \in {"idle", "device", "slide", "over"}
                     /\ devices[c].state \in {"none", "fresh", "revoked"} /\ devices[c].user \in AccountIds

(* What is meant to happen once happens once, however sign-ins, redemptions *)
(* and claims interleave: a person has one account and an account one       *)
(* folder, a code makes at most one device, a ticket opens one connection,  *)
(* a path has one key; and no credential points at an account that is gone. *)
OnceOnly ==
  /\ AccountTypeOK
  /\ \A u, v \in AccountIds : u # v /\ users[u].there /\ users[v].there =>
       (users[u].sub = "none" \/ users[u].sub # users[v].sub) /\ users[u].folder # users[v].folder
  /\ \A f \in Flows : Cardinality({c \in Calls : calls[c].flow = f /\ calls[c].pc \in {"device", "over"}}) <= 1
  /\ \A f \in Flows : tickets[f].uses <= 1
  /\ Cardinality(Active) <= 1
  /\ \A f \in Flows : logins[f].state \in {"fresh", "half"} => users[logins[f].user].there
  /\ \A c \in Calls : devices[c].state = "fresh" => users[devices[c].user].there

(* A browser that is signed in or half through its time is signed out by a  *)
(* logout or by time only, it alone, and not by a request or a claim that   *)
(* is under way.  A login that was logged out, or a device that was         *)
(* revoked, never comes back, though a request that read it is under way;   *)
(* a login whose time is up may, by a request that read it before (Slide).  *)
SignedOut(f) == logins[f].state \in {"fresh", "half"} /\ logins'[f].state \notin {"fresh", "half"}
LoginsHonest ==
  [][/\ \A f \in Flows : /\ SignedOut(f) => /\ \/ counted'["logout"] > counted["logout"]
                                               \/ counted'["expire"] > counted["expire"]
                                            /\ \A g \in Flows : SignedOut(g) => g = f
                         /\ logins[f].state = "out" => logins'[f].state = "out"
     /\ \A c \in Calls : devices[c].state = "revoked" => devices'[c].state = "revoked"]_accountVars
=============================================================================
