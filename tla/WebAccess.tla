------------------------------- MODULE WebAccess -------------------------------
(***************************************************************************)
(* Who may use the Web UI: the session and the login throttle of           *)
(* services/WebService.h, with core/WebSessionPolicy.h and                 *)
(* core/LoginThrottle.h.                                                   *)
(*                                                                         *)
(* All deadlines are compared on millis(), which wraps (2^32; 2 * HalfTurn *)
(* here).  One unit of time passes in Tick; the history variables count    *)
(* real time.  A token is random and never issued twice, so the session is *)
(* the browser that holds the cookie of the newest one.                    *)
(***************************************************************************)
EXTENDS Integers

CONSTANTS
  Browsers,
  Nobody,              \* no session
  HalfTurn,            \* half the range of millis()
  IdleTimeout,         \* kIdleTimeoutMs
  MaxLifetime,         \* kMaxLifetimeMs
  FailuresBeforeLock,  \* kFailuresBeforeLock
  InitialLock,         \* kInitialLockMs
  MaximumLock,         \* kMaximumLockMs
  MaxTier,             \* kMaxLockTier
  Horizon              \* bound: real time is counted up to here

VARIABLES
  now,           \* millis()
  session,       \* the browser with the cookie of sessionToken_, or Nobody
  created,       \* sessionCreatedAt_
  lastActivity,  \* sessionLastActivityAt_
  failures,      \* failureCount_
  tier,          \* lockTier_
  lockUntil,     \* lockUntilMs_, 0 for none
  age, idle,     \* history variables: real time since created, lastActivity
  forgotten,     \* history variable: the session was idle for a turn of millis()
  lockAge,       \* history variable: real time since the last lockout began
  batches        \* history variable: lockouts since the last login

sessionVars  == <<session, created, lastActivity, age, idle, forgotten>>
throttleVars == <<failures, tier, lockUntil, lockAge, batches>>
accessVars == <<now, sessionVars, throttleVars>>

Turn == 2 * HalfTurn
Time == 0 .. Turn - 1
Later(t, d) == (t + d) % Turn
Lesser(a, b) == IF a < b THEN a ELSE b

-----------------------------------------------------------------------------
(* WebSessionPolicy and LoginThrottle.                                     *)

Expired_IdleOnly == (now - lastActivity) % Turn > IdleTimeout
Expired ==
  \/ (now - created) % Turn > MaxLifetime
  \/ (now - lastActivity) % Turn > IdleTimeout

\* What authenticated() says of a request with the cookie of browser b.
Accepts(b) == session = b /\ ~Expired

\* static_cast<int32_t>(nowMs - lockUntilMs_) >= 0
Allowed_Unsigned == lockUntil = 0 \/ now >= lockUntil
Allowed == lockUntil = 0 \/ (now - lockUntil) % Turn < HalfTurn

RetryAfter == IF Allowed THEN 0 ELSE (lockUntil - now) % Turn

LockLength(t) == Lesser(InitialLock * 2 ^ Lesser(t, MaxTier), MaximumLock)

\* What the constants of the code have in common: every deadline is short for
\* millis(), and the history variables count further than it.
ASSUME DeadlineAssumption ==
  /\ HalfTurn \in Nat \ {0} /\ Nobody \notin Browsers
  /\ IdleTimeout \in Nat /\ MaxLifetime \in Nat /\ MaxLifetime + IdleTimeout < Turn
  /\ MaxTier \in Nat
  /\ \A t \in 0 .. MaxTier : LockLength(t) \in Nat /\ LockLength(t) < HalfTurn
  /\ Horizon \in Nat /\ Turn <= Horizon

-----------------------------------------------------------------------------
(* The handlers.                                                           *)

CreateSession(b) ==
  /\ session' = b
  /\ created' = now /\ lastActivity' = now
  /\ age' = 0 /\ idle' = 0 /\ forgotten' = FALSE

InvalidateSession ==
  /\ session' = Nobody
  /\ created' = 0 /\ lastActivity' = 0
  /\ age' = 0 /\ idle' = 0 /\ forgotten' = FALSE

\* handleLogin with a wrong password, while the throttle allows the attempt.
FailLogin ==
  /\ Allowed
  /\ IF failures + 1 < FailuresBeforeLock
     THEN /\ failures' = failures + 1
          /\ UNCHANGED <<tier, lockUntil, lockAge, batches>>
     ELSE /\ failures' = 0
          /\ tier' = Lesser(tier + 1, MaxTier)
          /\ lockUntil' = Later(now, LockLength(tier))
          /\ lockAge' = 0
          /\ batches' = Lesser(batches + 1, MaxTier + 1)
  /\ UNCHANGED <<now, sessionVars>>

Login(b) ==
  /\ Allowed
  /\ failures' = 0 /\ tier' = 0 /\ lockUntil' = 0
  /\ lockAge' = 0 /\ batches' = 0
  /\ CreateSession(b)
  /\ UNCHANGED now

\* A request the session covers, and what a changed password or a restored
\* backup, a logout, or any other handler makes of the session.
Request(b) ==
  /\ Accepts(b)
  /\ \/ /\ lastActivity' = now /\ idle' = 0
        /\ UNCHANGED <<session, created, age, forgotten>>
     \/ CreateSession(b)
     \/ InvalidateSession
  /\ UNCHANGED <<now, throttleVars>>

\* Any other request finds the session expired, or changes nothing.
RefusedRequest ==
  /\ session # Nobody /\ Expired
  /\ InvalidateSession
  /\ UNCHANGED <<now, throttleVars>>

PowerCycle ==
  /\ now' = 0
  /\ InvalidateSession
  /\ failures' = 0 /\ tier' = 0 /\ lockUntil' = 0
  /\ lockAge' = 0 /\ batches' = 0

Tick ==
  /\ now' = Later(now, 1)
  /\ age' = IF session = Nobody THEN 0 ELSE Lesser(age + 1, Horizon)
  /\ idle' = IF session = Nobody THEN 0 ELSE Lesser(idle + 1, Horizon)
  /\ forgotten' = (forgotten \/ idle' >= Turn)
  /\ lockAge' = IF batches = 0 THEN 0 ELSE Lesser(lockAge + 1, Horizon)
  /\ UNCHANGED <<session, created, lastActivity, failures, tier, lockUntil, batches>>

AccessInit ==
  /\ now = 0
  /\ session = Nobody /\ created = 0 /\ lastActivity = 0
  /\ age = 0 /\ idle = 0 /\ forgotten = FALSE
  /\ failures = 0 /\ tier = 0 /\ lockUntil = 0 /\ lockAge = 0 /\ batches = 0

AccessNext ==
  \/ FailLogin
  \/ \E b \in Browsers : Login(b) \/ Request(b)
  \/ RefusedRequest
  \/ PowerCycle
  \/ Tick

AccessSpec == AccessInit /\ [][AccessNext]_accessVars

-----------------------------------------------------------------------------
(* Properties.                                                             *)

\* A request is served only within 30 minutes of the one before and within 12
\* hours of the login, across the wrap of millis(), and however requests of
\* other browsers and failed logins mix with it.  The session forgets only when
\* it is asked: one nobody asks about for a whole turn of millis() (49.7 days)
\* is taken for a young one, so that case is excluded.
SessionInTime ==
  \A b \in Browsers :
    Accepts(b) /\ ~forgotten => age <= MaxLifetime /\ idle <= IdleTimeout

\* The lockouts in a row since the last login double up to the maximum; while
\* one lasts no password is looked at, Retry-After is what is left of it, and
\* when it is over logins are allowed for half a turn of millis().  The lockout
\* that would end at 0 is not kept.
LockoutKept ==
  LET length == Lesser(InitialLock * 2 ^ (batches - 1), MaximumLock)
  IN  batches > 0 /\ lockUntil # 0 /\ lockAge < length + HalfTurn =>
        RetryAfter = (IF lockAge < length THEN length - lockAge ELSE 0)
=============================================================================
