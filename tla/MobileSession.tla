---------------------------- MODULE MobileSession ---------------------------
(***************************************************************************)
(* The session of the app (src/mobile/src/stores/app-store.ts,             *)
(* services/api.ts, App.tsx) against refreshSession of auth-service.       *)
(*                                                                         *)
(* The system reports every change between active, inactive and            *)
(* background; App.tsx passes on the last two.  A refresh is a call: its   *)
(* request and its answer travel, and the server takes the steps that      *)
(* AuthTokens shows one by one (find, revoke, issue), so that two calls    *)
(* may overlap there too.  Tokens are those of one family, as the app      *)
(* never logs in again: no code but the answer of a refresh stores a       *)
(* token, and the first one is taken as given.                             *)
(***************************************************************************)
EXTENDS Naturals

CONSTANTS Tokens, First,    \* refresh tokens, and the one stored at the start
          Calls,            \* the refreshes that can be under way together
          MaxTimers,        \* bound on the timers left behind
          NoToken

ASSUME MobileSessionAssumption ==
  /\ First \in Tokens
  /\ NoToken \notin Tokens
  /\ MaxTimers \in Nat

VARIABLES
  screen,   \* AppState: "active", "inactive" or "background"
  timer,    \* backgroundTimer: "null", "armed" or "fired"
  strays,   \* timers still running that backgroundTimer no longer names
  auth,     \* isAuthenticated, with the access token in memory
  stored,   \* 'auth:refreshToken' in MMKV
  call,     \* each refresh
  awaited,  \* those that the app waits for, not having been killed since
  born,     \* the tokens the server issued
  dead,     \* those it revoked
  mishap    \* history: an answer was lost, a handler of the server broke off,
            \* or two refreshes overlapped

app == <<screen, timer, strays, auth, stored>>
server == <<born, dead>>
vars == <<app, call, awaited, server, mishap>>

PC == {"none", "sent", "revoke", "issue", "answered", "refused"}
CallType == [pc : PC, old : Tokens \union {NoToken}, new : Tokens \union {NoToken}]
Call(pc, old, new) == [pc |-> pc, old |-> old, new |-> new]
NoCall == Call("none", NoToken, NoToken)

TypeOK ==
  /\ screen \in {"active", "inactive", "background"}
  /\ timer \in {"null", "armed", "fired"}
  /\ strays \in 0 .. MaxTimers
  /\ auth \in BOOLEAN
  /\ stored \in born
  /\ call \in [Calls -> CallType]
  /\ awaited \subseteq Calls
  /\ dead \subseteq born /\ born \subseteq Tokens
  /\ mishap \in BOOLEAN

Init ==
  /\ screen = "active" /\ timer = "null" /\ strays = 0
  /\ auth \in BOOLEAN
  /\ stored = First
  /\ call = [c \in Calls |-> NoCall]
  /\ awaited = {}
  /\ born = {First} /\ dead = {}
  /\ mishap = FALSE

At(c, p) == call[c].pc = p
Keep(c, slot) == call' = [call EXCEPT ![c] = slot]
Answer(c, pc) == Keep(c, Call(pc, call[c].old, call[c].new)) /\ UNCHANGED awaited
Done(c) == Keep(c, NoCall) /\ awaited' = awaited \ {c}
Quiet == \A c \in Calls : At(c, "none")

-----------------------------------------------------------------------------
(* Plausible slips of the code, used only to show that the properties      *)
(* notice them: a timer that is not cleared, a token that is not stored.   *)
NotCleared(k) == k
OldTokenKept(c) == stored

-----------------------------------------------------------------------------
(* onAppBackground: backgroundTimer is overwritten without being cleared.  *)
LeftBehind(k) == IF timer = "armed" THEN k + 1 ELSE k

Background ==
  /\ screen # "background"
  /\ timer = "armed" => strays < MaxTimers
  /\ screen' = "background"
  /\ strays' = LeftBehind(strays)
  /\ timer' = "armed"
  /\ UNCHANGED <<auth, stored, call, awaited, server, mishap>>

Inactive ==
  /\ screen # "inactive"
  /\ screen' = "inactive"
  /\ UNCHANGED <<timer, strays, auth, stored, call, awaited, server, mishap>>

(* onAppForeground: the timer it names is cleared and, without a session,  *)
(* the stored token shown to the server, whether or not it is being shown  *)
(* already.                                                                *)
Cleared(k) == "null"
NeedsRefresh(a) == ~ a

Foreground ==
  /\ screen # "active"
  /\ screen' = "active"
  /\ timer' = Cleared(timer)
  /\ \/ /\ ~ NeedsRefresh(auth)
        /\ UNCHANGED <<call, awaited, mishap>>
     \/ /\ NeedsRefresh(auth)
        /\ \E c \in Calls :
             /\ At(c, "none")
             /\ Keep(c, Call("sent", stored, NoToken))
             /\ awaited' = awaited \union {c}
        /\ mishap' = (mishap \/ ~ Quiet)
  /\ UNCHANGED <<strays, auth, stored, server>>

(* Thirty minutes after a background event. *)
TimerFires ==
  /\ timer = "armed"
  /\ timer' = "fired"
  /\ auth' = FALSE
  /\ UNCHANGED <<screen, strays, stored, call, awaited, server, mishap>>

StrayFires ==
  /\ strays > 0
  /\ strays' = strays - 1
  /\ auth' = FALSE
  /\ UNCHANGED <<screen, timer, stored, call, awaited, server, mishap>>

-----------------------------------------------------------------------------
(* refreshSession (the steps of AuthTokens): a revoked token kills the     *)
(* family, a live one is revoked and another one issued.                   *)
ServerFind(c) ==
  /\ At(c, "sent")
  /\ IF call[c].old \in dead
     THEN dead' = born /\ Answer(c, "refused")
     ELSE UNCHANGED dead /\ Answer(c, "revoke")
  /\ UNCHANGED <<app, born, mishap>>

ServerRevoke(c) ==
  /\ At(c, "revoke")
  /\ dead' = dead \union {call[c].old}
  /\ Answer(c, "issue")
  /\ UNCHANGED <<app, born, mishap>>

ServerIssue(c, t) ==
  /\ At(c, "issue")
  /\ t \notin born
  /\ born' = born \union {t}
  /\ Keep(c, Call("answered", call[c].old, t))
  /\ UNCHANGED <<app, awaited, dead, mishap>>

(* The limiter answers 429, or the handler breaks off with a 500.          *)
ServerRefuses(c) ==
  /\ At(c, "sent") \/ At(c, "revoke") \/ At(c, "issue")
  /\ Answer(c, "refused")
  /\ mishap' = (mishap \/ At(c, "issue"))
  /\ UNCHANGED <<app, server>>

(* The connection breaks: fetch rejects, and nobody catches it.            *)
Lose(c) ==
  /\ At(c, "sent") \/ At(c, "answered") \/ At(c, "refused")
  /\ Done(c)
  /\ mishap' = (mishap \/ At(c, "answered"))
  /\ UNCHANGED <<app, server>>

(* refreshTokens goes on with the answer: any refusal clears the session,  *)
(* an answer stores the token and opens one, wherever the app is by now.   *)
TokenOf(c) == call[c].new

Refused(c) ==
  /\ At(c, "refused") /\ c \in awaited
  /\ auth' = FALSE
  /\ Done(c)
  /\ UNCHANGED <<screen, timer, strays, stored, server, mishap>>

Answered(c) ==
  /\ At(c, "answered") /\ c \in awaited
  /\ stored' = TokenOf(c)
  /\ auth' = TRUE
  /\ Done(c)
  /\ UNCHANGED <<screen, timer, strays, server, mishap>>

(* The app is killed and started again: memory is lost, MMKV is not, no    *)
(* change of state is reported and the answers under way reach nobody.     *)
Kill ==
  /\ screen' = "active" /\ timer' = "null" /\ strays' = 0
  /\ auth' = FALSE
  /\ awaited' = {}
  /\ mishap' = (mishap \/ ~ Quiet)
  /\ UNCHANGED <<stored, call, server>>

Lifecycle == Background \/ Inactive \/ Foreground \/ TimerFires \/ StrayFires \/ Kill
Refresh(c) ==
  \/ ServerFind(c) \/ ServerRevoke(c) \/ ServerRefuses(c)
  \/ \E t \in Tokens : ServerIssue(c, t)
  \/ Lose(c) \/ Refused(c) \/ Answered(c)

Next == Lifecycle \/ \E c \in Calls : Refresh(c)

Spec == Init /\ [][Next]_vars

-----------------------------------------------------------------------------
(* The app is stranded, with a token the server will only refuse, and the  *)
(* family is dead with it, only if an answer that rotated the token was    *)
(* lost, the server broke off between its statements, or two refreshes     *)
(* overlapped: no sequence of lifecycle events, timers, refusals and lost  *)
(* requests alone can do it (app-store.ts:86-97, api.ts:8-30).             *)
StrandedOnlyByMishap == Quiet /\ stored \in dead => mishap

(* The timer of an earlier background phase never signs out an app in the  *)
(* foreground: with no timer left behind and no answer under way, only a   *)
(* kill or thirty minutes in the background end a session.                 *)
SessionSurvives ==
  [][screen = "active" /\ auth /\ strays = 0 /\ Quiet
       => auth' \/ Kill]_vars

=============================================================================
