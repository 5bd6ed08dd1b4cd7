------------------------------- MODULE SignIn -------------------------------
(***************************************************************************)
(* Signing in to one store: attempts by password, by PIN on a registered   *)
(* device and by a support reset code (core/access/src/server/login.ts,    *)
(* reset-codes.ts), the limits on failed attempts (throttle.ts), and the   *)
(* sessions they open and others end (sessions.ts, users.ts, devices.ts).  *)
(*                                                                         *)
(* The failures of a key (a user's password, a user's PIN on a device) are *)
(* rows of the database; those of the source address are in the memory of  *)
(* the server.  Whether a secret or a second factor is right is a choice.  *)
(***************************************************************************)
EXTENDS Naturals, SequencesExt, FiniteSetsExt

CONSTANTS
  Users,         \* the users of the store, with a password and a PIN
  DeviceIds,     \* its registered devices
  Attempts,      \* attempts at a time, all from one address
  LoginLimit,    \* LOGIN_FAILURE_LIMIT
  AddressLimit,  \* ADDRESS_FAILURE_LIMIT
  Window,        \* SIGN_IN_WINDOW_MS
  CodeLife,      \* RESET_CODE_LIFETIME_MS
  MaxTime,       \* bound: the clock
  MaxCodes,      \* bound: the reset codes of a user issued at one time
  MaxEndings     \* bound: how often a user's sessions are ended

ASSUME SignInAssumption ==
  /\ LoginLimit \in Nat \ {0} /\ AddressLimit \in Nat \ {0} /\ Window \in Nat \ {0}
  /\ CodeLife \in Nat \ {0} /\ MaxTime \in Nat /\ MaxCodes \in Nat /\ MaxEndings \in Nat
  /\ "none" \notin DeviceIds

VARIABLES
  now,        \* the server's clock
  active,     \* the users whose status is active
  revoked,    \* the devices with a revoked_at
  failures,   \* login_attempts of each key: rows with the time it failed, and which it was then
  address,    \* the counter of the address: its failures, and its attempts in flight
  attempt,    \* the attempts being made
  sessions,   \* the sessions without a revoked_at
  resetCodes, \* reset_codes of each user not used: when they expire, and which it is of those
  prompt,     \* for the properties: the failures of each key, since they were last cleared, that
             \* were recorded at the time their attempt began
  endings      \* for the properties: how often the sessions of a user were ended

userVars == <<active, revoked, resetCodes, endings>>
keyVars == <<failures, prompt>>
signInVars == <<now, userVars, keyVars, address, attempt, sessions>>

NoDevice == "none"

Keys == {<<"password", u, NoDevice>> : u \in Users} \cup ({"pin"} \X Users \X DeviceIds)

Times == 0..MaxTime

\* An attempt: its kind, how far it is, the user it names, the device it is made on, the time it
\* began at, and whether it read the user as active.
Attempt ==
  [kind : {"password", "pin", "reset"},
   step : {"asked", "counted", "read", "checking", "verified"},
   user : Users, device : DeviceIds \cup {NoDevice}, at : Times, active : BOOLEAN]

NoAttempt == [step |-> "none"]

ResetCode == (0..(MaxTime + CodeLife)) \X (1..MaxCodes)

Session == [user : Users, device : DeviceIds \cup {NoDevice}, endings : 0..MaxEndings]

Key(a) ==
  LET t == attempt[a]
  IN  IF t.kind = "pin" THEN <<"pin", t.user, t.device>> ELSE <<"password", t.user, NoDevice>>

-----------------------------------------------------------------------------
(* Limits. *)

\* The failures of the window that ends at t.
Within(rows, t) == {r \in rows : r[1] <= t /\ r[1] + Window > t}

\* throttledUntil: the failures that reached the limit fall within one window, which the newest
\* of them ends, and a window from then has not passed.
Throttled(rows, limit, t) ==
  \E newest \in rows :
    /\ \A r \in rows : r[1] <= newest[1]
    /\ t < newest[1] + Window
    /\ Cardinality(Within(rows, newest[1])) >= limit

\* A failure at time t is added: a row of its own.
AddRow(rows, t) == rows \cup {<<t, Cardinality({r \in rows : r[1] = t}) + 1>>}

\* What is kept of failures at time t: those of two windows.
Prune(rows, t) == {r \in rows : r[1] + 2 * Window > t}

\* The list of the address, which is kept in the order the attempts ended, as rows.
Listed == {<<address.failures[i], i>> : i \in DOMAIN address.failures}

PruneList(times, t) ==
  FoldLeft(LAMBDA kept, at : IF at + 2 * Window > t THEN Append(kept, at) ELSE kept, <<>>, times)

\* FailureCounter.fail: the failure is added, and the last ones are kept.
CountFailure(times, t) ==
  LET kept == PruneList(Append(times, t), t)
  IN  IF Len(kept) <= AddressLimit THEN kept
      ELSE SubSeq(kept, Len(kept) - AddressLimit + 1, Len(kept))

\* refuseThrottledAddress lets an attempt pass.
AddressFree ==
  /\ ~Throttled(Listed, AddressLimit, now)
  /\ Cardinality(Within(Listed, now)) + address.pending < AddressLimit

Counted(a) == attempt[a].step \in {"counted", "read", "checking"}

\* The counted attempt ends, as a failure or not.
Released == [address EXCEPT !.pending = @ - 1]

FailedAt(t) == [Released EXCEPT !.failures = CountFailure(@, t)]

\* lockAttempts: the attempts of a key are checked one after the other.
\* (KeyOpen, a bug: the lock is left out.)
KeyOpen(a) == a \in Attempts

KeyFree(a) == \A b \in Attempts : attempt[b].step = "checking" => Key(b) # Key(a)

-----------------------------------------------------------------------------
(* Attempts. *)

Start(a, kind, u, d, step) ==
  /\ attempt[a] = NoAttempt
  /\ attempt' = [attempt EXCEPT ![a] = [kind |-> kind, step |-> step, user |-> u, device |-> d,
                                        at |-> now, active |-> FALSE]]
  /\ UNCHANGED <<now, userVars, keyVars, sessions>>

\* logIn without a device, and resetPasswordWithCode: counted as soon as the address passes.
AskAnywhere(a, u) ==
  /\ AddressFree
  /\ \E kind \in {"password", "reset"} : Start(a, kind, u, NoDevice, "counted")
  /\ address' = [address EXCEPT !.pending = @ + 1]

\* logIn on a device: the address passes, then the device is read.
AskOnDevice(a, u, d) ==
  /\ AddressFree
  /\ Start(a, "password", u, d, "asked")
  /\ UNCHANGED address

\* logInWithPin: the device is read, then the address passes.
AskPin(a, u, d) ==
  /\ d \notin revoked
  /\ Start(a, "pin", u, d, "asked")
  /\ UNCHANGED address

\* The other of the two, and the attempt is counted.
Begin(a) ==
  LET t == attempt[a]
  IN  /\ t.step = "asked"
      /\ IF t.kind = "pin" THEN AddressFree ELSE t.device \notin revoked
      /\ attempt' = [attempt EXCEPT ![a].step = "counted", ![a].at = now]
      /\ address' = [address EXCEPT !.pending = @ + 1]
      /\ UNCHANGED <<now, userVars, keyVars, sessions>>

\* By PIN, the user is read before the key is locked.
ReadUser(a) ==
  /\ attempt[a].step = "counted" /\ attempt[a].kind = "pin"
  /\ attempt' = [attempt EXCEPT ![a].step = "read", ![a].active = attempt[a].user \in active]
  /\ UNCHANGED <<now, userVars, keyVars, address, sessions>>

\* The key's lock is taken and its failures allow a check; by password, the user is read.
Enter(a) ==
  LET t == attempt[a]
  IN  /\ \/ t.step = "read"
         \/ t.step = "counted" /\ t.kind = "password"
      /\ KeyFree(a)
      /\ ~Throttled(failures[Key(a)], LoginLimit, t.at)
      /\ attempt' = [attempt EXCEPT ![a].step = "checking",
                       ![a].active = IF t.kind = "pin" THEN @ ELSE t.user \in active]
      /\ UNCHANGED <<now, userVars, keyVars, address, sessions>>

\* clearFailures.
Clear(k) ==
  /\ failures' = [failures EXCEPT ![k] = {}]
  /\ prompt' = [prompt EXCEPT ![k] = {}]

\* The secret is right: the key's failures are cleared, and the check commits.
Verify(a) ==
  /\ attempt[a].step = "checking" /\ attempt[a].active
  /\ Clear(Key(a))
  /\ attempt' = [attempt EXCEPT ![a].step = "verified"]
  /\ address' = Released
  /\ UNCHANGED <<now, userVars, sessions>>

Ended(a) == attempt' = [attempt EXCEPT ![a] = NoAttempt]

\* The secret is wrong, or the user not active: recordFailure, and the check commits.
Fail(a) ==
  LET at == attempt[a].at
      added == AddRow(failures[Key(a)], at)
  IN  /\ attempt[a].step = "checking"
      /\ failures' = [k \in Keys |-> Prune(IF k = Key(a) THEN added ELSE failures[k], at)]
      /\ prompt' = [prompt EXCEPT ![Key(a)] =
                      IF at = now THEN @ \cup (added \ failures[Key(a)]) ELSE @]
      /\ address' = FailedAt(at)
      /\ Ended(a)
      /\ UNCHANGED <<now, userVars, sessions>>

\* Refused (the key is throttled or busy, a second factor is missing, the license suspended), or
\* it fails: whatever was counted of it is released.
\* (DropCounted, a bug: an attempt refused within the check stays counted.)
DropCounted(a) ==
  /\ attempt[a] # NoAttempt
  /\ Ended(a)
  /\ address' = IF Counted(a) /\ attempt[a].step # "checking" THEN Released ELSE address
  /\ UNCHANGED <<now, userVars, keyVars, sessions>>

Drop(a) ==
  /\ attempt[a] # NoAttempt
  /\ Ended(a)
  /\ address' = IF Counted(a) THEN Released ELSE address
  /\ UNCHANGED <<now, userVars, keyVars, sessions>>

\* openAuditedSession, in a transaction of its own, which asks nothing again but the license.
Open(a) ==
  LET t == attempt[a]
  IN  /\ t.step = "verified"
      /\ sessions' = sessions \cup
                       {[user |-> t.user, device |-> t.device, endings |-> endings[t.user]]}
      /\ Ended(a)
      /\ UNCHANGED <<now, userVars, keyVars, address>>

-----------------------------------------------------------------------------
(* Sessions end. *)

SessionsOf(u) == {s \in sessions : s.user = u}

\* revokeUserSessions, of all the sessions of a user or of all but one.
EndSessions(u, kept) ==
  /\ endings[u] < MaxEndings
  /\ endings' = [endings EXCEPT ![u] = @ + 1]
  /\ sessions' = (sessions \ SessionsOf(u)) \cup {[s EXCEPT !.endings = @ + 1] : s \in kept}

\* A reset code is used, once and before it expires: the password is set, the sessions end, the
\* failures are cleared.
UseCode(a) ==
  LET u == attempt[a].user
  IN  /\ attempt[a].step = "counted" /\ attempt[a].kind = "reset"
      /\ u \in active
      /\ \E code \in resetCodes[u] :
           now < code[1] /\ resetCodes' = [resetCodes EXCEPT ![u] = @ \ {code}]
      /\ EndSessions(u, {})
      /\ Clear(Key(a))
      /\ address' = Released
      /\ Ended(a)
      /\ UNCHANGED <<now, active, revoked>>

\* A wrong, used or expired code, or a user who may not have one.
WrongCode(a) ==
  /\ attempt[a].step = "counted" /\ attempt[a].kind = "reset"
  /\ address' = FailedAt(attempt[a].at)
  /\ Ended(a)
  /\ UNCHANGED <<now, userVars, keyVars, sessions>>

\* issueResetCode, for an active owner, whom any user may be here, and however many codes are out.
IssueResetCode(u) ==
  /\ u \in active
  /\ \E code \in ({now + CodeLife} \X (1..MaxCodes)) \ resetCodes[u] :
       resetCodes' = [resetCodes EXCEPT ![u] = @ \cup {code}]
  /\ UNCHANGED <<now, active, revoked, endings, keyVars, address, attempt, sessions>>

\* A bug: only the status is changed.
DeactivateOnly(u) ==
  /\ u \in active /\ endings[u] < MaxEndings
  /\ active' = active \ {u}
  /\ endings' = [endings EXCEPT ![u] = @ + 1]
  /\ UNCHANGED <<now, revoked, resetCodes, keyVars, address, attempt, sessions>>

Deactivate(u) ==
  /\ u \in active
  /\ active' = active \ {u}
  /\ EndSessions(u, {})
  /\ UNCHANGED <<now, revoked, resetCodes, keyVars, address, attempt>>

Reactivate(u) ==
  /\ u \notin active
  /\ active' = active \cup {u}
  /\ UNCHANGED <<now, revoked, resetCodes, endings, keyVars, address, attempt, sessions>>

\* setUserPassword, by another user.
SetPassword(u) ==
  /\ EndSessions(u, {})
  /\ UNCHANGED <<now, active, revoked, resetCodes, keyVars, address, attempt>>

\* authenticateSession: a session not revoked, of an active user, on a device not revoked.
\* (UsableOnAny, a bug: it relies on revokeDevice having ended the sessions of the device.)
UsableOnAny(s) == s \in sessions /\ s.user \in active

Usable(s) == s \in sessions /\ s.user \in active /\ s.device \notin revoked

\* changeOwnPassword: the session it is changed from stays.
ChangePassword(s) ==
  /\ Usable(s)
  /\ EndSessions(s.user, {s})
  /\ UNCHANGED <<now, active, revoked, resetCodes, keyVars, address, attempt>>

\* revokeSession.
SignOut(s) ==
  /\ Usable(s)
  /\ sessions' = sessions \ {s}
  /\ UNCHANGED <<now, userVars, keyVars, address, attempt>>

RevokeDevice(d) ==
  /\ d \notin revoked
  /\ revoked' = revoked \cup {d}
  /\ sessions' = {s \in sessions : s.device # d}
  /\ UNCHANGED <<now, active, resetCodes, endings, keyVars, address, attempt>>

-----------------------------------------------------------------------------
NoCount == [failures |-> <<>>, pending |-> 0]

\* The server stops and starts: its counter and the attempts are gone.
Restart ==
  /\ address' = NoCount
  /\ attempt' = [a \in Attempts |-> NoAttempt]
  /\ UNCHANGED <<now, userVars, keyVars, sessions>>

\* Time passes; an attempt, which waits for its key for at most ATTEMPT_LOCK_TIMEOUT, does not
\* last for two units of it.
Tick ==
  /\ now < MaxTime
  /\ \A a \in Attempts : attempt[a] # NoAttempt => attempt[a].at = now
  /\ now' = now + 1
  /\ UNCHANGED <<userVars, keyVars, address, attempt, sessions>>

SignInInit ==
  /\ now = 0
  /\ active = Users /\ revoked = {}
  /\ failures = [k \in Keys |-> {}] /\ prompt = failures
  /\ address = NoCount
  /\ attempt = [a \in Attempts |-> NoAttempt]
  /\ sessions = {}
  /\ resetCodes = [u \in Users |-> {}]
  /\ endings = [u \in Users |-> 0]

Try(a, u) == AskAnywhere(a, u) \/ \E d \in DeviceIds : AskOnDevice(a, u, d) \/ AskPin(a, u, d)

Go(a) ==
  \/ Begin(a) \/ ReadUser(a) \/ Enter(a) \/ Verify(a) \/ Fail(a) \/ Open(a) \/ Drop(a)
  \/ UseCode(a) \/ WrongCode(a)

Manage(u) == Deactivate(u) \/ Reactivate(u) \/ SetPassword(u) \/ IssueResetCode(u)

SignInNext ==
  \/ \E a \in Attempts : Go(a) \/ \E u \in Users : Try(a, u)
  \/ \E u \in Users : Manage(u)
  \/ \E s \in sessions : ChangePassword(s) \/ SignOut(s)
  \/ \E d \in DeviceIds : RevokeDevice(d)
  \/ Restart \/ Tick

SignInSpec == SignInInit /\ [][SignInNext]_signInVars

-----------------------------------------------------------------------------
(* Properties. *)

\* Types; and the attempts the address is charged with are the ones in flight: none is forgotten,
\* which would keep the address out until the server restarts (login.ts, countedByAddress).
SignInTypeOK ==
  /\ now \in Times
  /\ active \subseteq Users /\ revoked \subseteq DeviceIds
  /\ failures \in [Keys -> SUBSET (Times \X Nat)] /\ prompt \in [Keys -> SUBSET (Times \X Nat)]
  /\ address.failures \in Seq(Times) /\ Len(address.failures) <= AddressLimit
  /\ address.pending = Cardinality({a \in Attempts : Counted(a)})
  /\ attempt \in [Attempts -> Attempt \cup {NoAttempt}]
  /\ sessions \subseteq Session
  /\ resetCodes \in [Users -> SUBSET ResetCode]
  /\ endings \in [Users -> 0..MaxEndings]

\* However many attempts at a key are made at once, and whatever clears or restarts meanwhile, no
\* more than the limit of them fail within a window (core-foundation rule 21; login.ts), but for
\* those that time passed under: an attempt is judged by the time it began, and one that waited
\* while the key's window ended and another failed can be one more failure of the old window.
FailuresWithinLimit ==
  \A k \in Keys, t \in Times : Cardinality(Within(prompt[k], t)) <= LoginLimit

\* A session that was open when its user's sessions were ended, or its device was revoked, is never
\* good again, not even when the user is active again (core-foundation rules 22 and 23;
\* sessions.ts, "this holds even if one was missed").
EndedSessionsStayEnded ==
  \A s \in sessions :
    Usable(s) => s.endings = endings[s.user] /\ s.device \notin revoked
=============================================================================
