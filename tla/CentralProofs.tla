---------------------------- MODULE CentralProofs ---------------------------
(***************************************************************************)
(* Theorems about Central, for every set of environments and callers.      *)
(***************************************************************************)
EXTENDS Central, TLAPS

-----------------------------------------------------------------------------
(* What Load accepts *)

Numbers == DurationKeys \cup WholeKeys

LEMMA NumbersKept ==
  ASSUME NEW env \in Envs, NEW k \in Numbers, Load(env).problems = {}
  PROVE  Load(env).conf[k] = env[k] /\ env[k] \in Int /\ env[k] > 0
  <1>1. k \in DOMAIN env
    BY Environments, SMTT(30) DEF Numbers, DurationKeys, WholeKeys, Fallback
  <1>2. env[k] \in Int
    BY Environments DEF Numbers
  <1>3. env[k] > 0
    BY <1>2 DEF Load, Numbers
  <1>4. settle(env)[k] = number(env[k])
    BY <1>1 DEF settle, setting, Numbers
  <1> QED BY <1>2, <1>3, <1>4 DEF Load, number

LEMMA NoProblem ==
  ASSUME NEW env \in Envs, Load(env).problems = {}
  PROVE  LET c == Load(env).conf
         IN  /\ NewClientStore(env.CLIENTS)
             /\ c.CLIENTS = env.CLIENTS
             /\ windows(c) = {}
             /\ c.TOKEN_SIGNING_KEY # ""
             /\ c.ISSUER # ""
             /\ (c.TURN_URLS = {}) # (c.TURN_SECRET # "")
  <1> DEFINE c == Load(env).conf
  <1>1. validate(c) = {} /\ problem("CLIENTS", ~NewClientStore(env.CLIENTS)) = {}
    BY DEF Load
  <1>2. NewClientStore(env.CLIENTS)
    BY <1>1 DEF problem
  <1>3. c.CLIENTS = env.CLIENTS
    <2>1. "CLIENTS" \in DOMAIN env
      BY Environments DEF Fallback
    <2>2. setting(env, "CLIENTS") = env.CLIENTS
      BY DEF setting, DurationKeys, WholeKeys
    <2> QED BY <2>1, <2>2 DEF Load, settle
  <1>4. /\ windows(c) = {}
        /\ problem("TOKEN_SIGNING_KEY", c.TOKEN_SIGNING_KEY = "") = {}
        /\ problem("ISSUER", c.ISSUER = "") = {}
        /\ problem("TURN_SECRET", (c.TURN_URLS = {}) = (c.TURN_SECRET # "")) = {}
    <2> HIDE DEF c
    <2> QED BY <1>1 DEF validate
  <1>5. c.TOKEN_SIGNING_KEY # "" /\ c.ISSUER # ""
    BY <1>4 DEF problem
  <1>6. (c.TURN_URLS = {}) # (c.TURN_SECRET # "")
    BY <1>4 DEF problem
  <1> QED BY <1>2, <1>3, <1>4, <1>5, <1>6

LEMMA LoadedKey ==
  ASSUME NEW env \in Envs, Load(env).problems = {}
  PROVE  Load(env).conf.TOKEN_SIGNING_KEY \in Seeds
  <1>1. "TOKEN_SIGNING_KEY" \in DOMAIN env
    BY Environments DEF Fallback
  <1>2. setting(env, "TOKEN_SIGNING_KEY") \in Seeds \cup {""}
    BY DEF setting, DurationKeys, WholeKeys, loadSigningKey
  <1> QED BY <1>1, <1>2, NoProblem DEF Load, settle

LEMMA WindowsInOrder ==
  ASSUME NEW c, windows(c) = {},
         c.HEARTBEAT_INTERVAL \in Int, c.SUSPECT_AFTER \in Int, c.OFFLINE_AFTER \in Int,
         c.HEARTBEAT_INTERVAL > 0, c.SUSPECT_AFTER > 0, c.OFFLINE_AFTER > 0
  PROVE  c.SUSPECT_AFTER > c.HEARTBEAT_INTERVAL /\ c.OFFLINE_AFTER > c.SUSPECT_AFTER
  <1>1. "SUSPECT_AFTER" \notin windows(c) /\ "OFFLINE_AFTER" \notin windows(c)
    OBVIOUS
  <1>2. ~(c.SUSPECT_AFTER <= c.HEARTBEAT_INTERVAL)
    BY <1>1 DEF windows
  <1>3. ~(c.OFFLINE_AFTER <= c.SUSPECT_AFTER)
    BY <1>1 DEF windows
  <1> QED BY <1>2, <1>3

\* config.go and the constructors of main.go:70-168 agree: what Load accepts,
\* each of them takes.
THEOREM AcceptedBuilds ==
  ASSUME NEW env \in Envs, Load(env).problems = {}
  PROVE  Builds(Load(env).conf)
  <1> DEFINE c == Load(env).conf
  <1>1. \A k \in Numbers : c[k] \in Int /\ c[k] > 0
    BY NumbersKept
  <1>2. /\ c.TOKEN_TTL > 0 /\ c.AUTH_MAX_FAILURES > 0 /\ c.AUTH_FAILURE_WINDOW > 0
        /\ c.NEGOTIATION_TIMEOUT > 0 /\ c.TURN_CREDENTIAL_TTL > 0
        /\ c.SESSION_RETENTION \in Int /\ c.SESSION_RETENTION > 0
        /\ c.HEARTBEAT_INTERVAL \in Int /\ c.HEARTBEAT_INTERVAL > 0
        /\ c.SUSPECT_AFTER \in Int /\ c.SUSPECT_AFTER > 0
        /\ c.OFFLINE_AFTER \in Int /\ c.OFFLINE_AFTER > 0
    <2> HIDE DEF c
    <2> QED BY <1>1 DEF Numbers, DurationKeys, WholeKeys
  <1>3. /\ NewClientStore(c.CLIENTS) /\ windows(c) = {}
        /\ c.TOKEN_SIGNING_KEY # "" /\ c.ISSUER # ""
        /\ (c.TURN_URLS = {}) # (c.TURN_SECRET # "")
    BY NoProblem
  <1> HIDE DEF c
  <1>4. NewTokenIssuer(c) /\ NewAttemptLimiter(c) /\ NewSessions(c)
    <2>1. NewTokenIssuer(c) /\ NewAttemptLimiter(c)
      BY <1>2, <1>3, Zenon DEF NewTokenIssuer, NewAttemptLimiter
    <2>2. NewSessions(c)
      BY <1>2, SMT DEF NewSessions
    <2> QED BY <2>1, <2>2
  <1>5. NewRegistry(c)
    BY <1>2, <1>3, WindowsInOrder DEF NewRegistry
  <1>6. NewProvider(c)
    BY <1>2, <1>3 DEF NewProvider
  <1>7. Builds(c)
    BY <1>3, <1>4, <1>5, <1>6 DEF Builds
  <1> QED BY <1>7 DEF c

\* What a process that serves was built from.
Serves ==
    stage \in {"serving", "draining"} =>
        /\ conf.key \in Seeds
        /\ conf.ttl \in Int /\ conf.ttl > 0
        /\ conf.shutdown \in Int
        /\ \A i \in DOMAIN conf.clients :
              conf.clients[i].idLen <= MaxClientIDLen =>
                  canAuthenticate(conf.clients[i]) /\ canRelay(conf.clients[i])

LEMMA KeptServes ==
  ASSUME NEW env \in Envs, Load(env).problems = {}, conf' = kept(Load(env).conf)
  PROVE  Serves'
  <1> DEFINE c == Load(env).conf
  <1>1. /\ conf'.key = c.TOKEN_SIGNING_KEY /\ conf'.ttl = c.TOKEN_TTL
        /\ conf'.clients = c.CLIENTS /\ conf'.relay = (c.TURN_URLS # {})
        /\ conf'.secret = c.TURN_SECRET /\ conf'.credentialTTL = c.TURN_CREDENTIAL_TTL
        /\ conf'.shutdown = c.SHUTDOWN_TIMEOUT
    BY DEF kept
  <1>2. \A k \in {"TOKEN_TTL", "TURN_CREDENTIAL_TTL", "SHUTDOWN_TIMEOUT"} :
            c[k] \in Int /\ c[k] > 0
    <2>1. {"TOKEN_TTL", "TURN_CREDENTIAL_TTL", "SHUTDOWN_TIMEOUT"} \subseteq Numbers
      BY DEF Numbers, DurationKeys
    <2> QED BY <2>1, NumbersKept
  <1>3. c.TOKEN_SIGNING_KEY \in Seeds
    BY LoadedKey
  <1>4. /\ NewClientStore(env.CLIENTS) /\ c.CLIENTS = env.CLIENTS
        /\ (c.TURN_URLS = {}) # (c.TURN_SECRET # "")
    BY NoProblem
  <1>5. env.CLIENTS \in Seq(ClientConfig)
    BY Environments
  <1> HIDE DEF c
  <1>6. conf'.relay => conf'.secret # "" /\ conf'.credentialTTL > 0
    BY <1>1, <1>2, <1>4
  <1>7. ASSUME NEW i \in DOMAIN conf'.clients,
               conf'.clients[i].idLen <= MaxClientIDLen
        PROVE  (canAuthenticate(conf.clients[i]) /\ canRelay(conf.clients[i]))'
    <2> DEFINE d == env.CLIENTS[i]
    <2>1. d = conf'.clients[i] /\ i \in DOMAIN env.CLIENTS
      BY <1>1, <1>4
    <2>2. d \in ClientConfig
      BY <1>5, <2>1
    <2>3. ~badClient(d)
      BY <1>4, <2>1 DEF NewClientStore
    <2>4. d.idLen \in Nat /\ d.peerLen \in Nat /\ d.idLen <= MaxClientIDLen
      BY <1>7, <2>1, <2>2 DEF ClientConfig
    <2>5. d.idLen # 0 /\ d.peerLen # 0 /\ d.plain
      BY <2>3 DEF badClient
    <2>6. canAuthenticate(d)
      BY <2>4, <2>5, StartupLimits DEF canAuthenticate
    <2>7. canRelay(conf.clients[i])'
      <3>1. d.peerLen > 0
        BY <2>4, <2>5
      <3> QED BY <1>6, <2>1, <2>5, <3>1, Zenon DEF canRelay
    <2> QED BY <2>1, <2>6, <2>7
  <1> QED BY <1>1, <1>2, <1>3, <1>7 DEF Serves

-----------------------------------------------------------------------------
(* The invariant *)

Signed(t) ==
    t # NoToken =>
        /\ t.key \in Seeds
        /\ t.expiresAt \in Int
        /\ t.exp = truncate(t.expiresAt)

\* What every step keeps: the process answers only while it serves or drains,
\* a token's claims are cut from what its holder was told, a pin was matched.
Inv ==
    /\ TypeOK
    /\ stage # "broken"
    /\ Serves
    /\ DOMAIN token = Callers
    /\ \A c \in Callers : Signed(token[c])
    /\ pinned => matched
    /\ MatchedBeforeCredential
    /\ VerdictIsRight

LEMMA NoVerdictIsRight ==
  ASSUME verdict' = NoVerdict
  PROVE  VerdictIsRight' /\ verdict'.result = "none"
  BY DEF VerdictIsRight, NoVerdict

LEMMA TruncateBounds ==
  ASSUME NEW t \in Int
  PROVE  truncate(t) \in Int /\ truncate(t) <= t /\ truncate(t) > t - Second
  BY DEF truncate, Second

\* The fraction of a second that the claim loses is all that Verify may be
\* wrong by.
LEMMA VerifyIsRight ==
  ASSUME Inv, NEW c \in Callers, Use(c)
  PROVE  VerdictIsRight' /\ verdict'.result \in {"none", "served", "expired", "invalid"}
  <1> DEFINE t == token[c]
  <1>1. verdict'.by = t /\ verdict'.result = Verify(t)
        /\ conf' = conf /\ clock' = clock
    BY DEF Use
  <1>2. t.expiresAt \in Int /\ t.exp = truncate(t.expiresAt)
    BY DEF Inv, Signed, Use
  <1>3. t.exp \in Int /\ t.exp <= t.expiresAt /\ t.exp > t.expiresAt - Second
    BY <1>2, TruncateBounds
  <1>4. clock \in Int
    BY CentralOptions DEF Inv, TypeOK
  <1> HIDE DEF t
  <1>5. Verify(t) = "served" => t.key = conf.key /\ t.issuer = conf.issuer /\ clock < t.expiresAt
    BY <1>2, <1>3, <1>4 DEF Verify
  <1>6. Verify(t) = "expired" => t.key = conf.key /\ clock > t.expiresAt - Second
    BY <1>2, <1>3, <1>4 DEF Verify, Second
  <1>7. Verify(t) = "invalid" => ~(t.key = conf.key /\ t.issuer = conf.issuer)
    BY DEF Verify
  <1>8. VerdictIsRight'
    BY <1>1, <1>5, <1>6, <1>7 DEF VerdictIsRight
  <1> QED BY <1>1, <1>8 DEF Verify

LEMMA InitInv == Init => Inv
  <1> SUFFICES ASSUME Init PROVE Inv
    OBVIOUS
  <1>1. TypeOK
    <2>1. clock \in 0..MaxClock /\ drainFrom \in 0..clock /\ launches \in 0..MaxLaunches
      BY CentralOptions DEF Init
    <2> QED BY <2>1, Zenon DEF Init, TypeOK, Exited, NoVerdict
  <1>2. VerdictIsRight
    BY DEF Init, VerdictIsRight, NoVerdict
  <1> QED BY <1>1, <1>2 DEF Init, Inv, Serves, Signed, MatchedBeforeCredential

\* Steps that leave the process as it is.
LEMMA QuietInv ==
  ASSUME Inv, Quiet,
         DOMAIN token' = Callers, \A c \in Callers : Signed(token'[c]),
         caller' \in [Callers -> {"idle", "fetching", "posting", "handled"}],
         stage \in Exited => \A c \in Callers : caller'[c] # "handled",
         pinned' \in BOOLEAN, matched' \in BOOLEAN, pinned' => matched',
         MatchedBeforeCredential'
  PROVE  Inv'
  <1>1. stage' = stage /\ conf' = conf /\ clock' = clock /\ drainFrom' = drainFrom
        /\ launches' = launches /\ verdict' = NoVerdict
    BY DEF Quiet
  <1>2. TypeOK'
    BY <1>1, NoVerdictIsRight DEF Inv, TypeOK, Signed
  <1>3. Serves'
    BY <1>1 DEF Inv, Serves, canRelay
  <1> QED BY <1>1, <1>2, <1>3, NoVerdictIsRight DEF Inv, Signed

LEMMA exitInv ==
  ASSUME Inv, exit
  PROVE  Inv'
  <1>1. stage' = "stopped" /\ drainFrom' = 0 /\ clock' = clock /\ launches' = launches
        /\ token' = token /\ pinned' = pinned /\ matched' = matched
        /\ verdict' = NoVerdict
    BY DEF exit
  <1>2. /\ caller' \in [Callers -> {"idle", "fetching", "posting"}]
        /\ \A c \in Callers : caller'[c] = caller[c] \/ caller'[c] = "idle"
    BY DEF exit, Inv, TypeOK
  <1>3. TypeOK'
    BY <1>1, <1>2, NoVerdictIsRight, CentralOptions DEF Inv, TypeOK, Exited
  <1>4. MatchedBeforeCredential'
    BY <1>1, <1>2 DEF Inv, MatchedBeforeCredential
  <1> QED BY <1>1, <1>3, <1>4, NoVerdictIsRight DEF Inv, Serves, Signed

LEMMA LaunchInv ==
  ASSUME Inv, NEW env \in Envs, Launch(env)
  PROVE  Inv'
  <1>1. clock' = clock /\ drainFrom' = drainFrom /\ caller' = caller /\ token' = token
        /\ pinned' = pinned /\ matched' = matched /\ verdict' = NoVerdict
        /\ stage \in Exited
    BY DEF Launch
  <1>2. launches' \in 0..MaxLaunches
    BY CentralOptions DEF Launch, Inv, TypeOK
  <1>3. stage' \in {"refused", "unbound", "serving"}
        /\ (stage' = "serving" => Load(env).problems = {})
    BY AcceptedBuilds DEF Launch, outcomes
  <1>4. Serves'
    <2>1. CASE stage' = "serving"
      BY <1>3, <2>1, KeptServes DEF Launch
    <2>2. CASE stage' # "serving"
      BY <1>3, <2>2 DEF Serves
    <2> QED BY <2>1, <2>2
  <1>5. TypeOK'
    BY <1>1, <1>2, <1>3, NoVerdictIsRight DEF Inv, TypeOK, Exited
  <1>6. MatchedBeforeCredential'
    BY <1>1 DEF Inv, MatchedBeforeCredential
  <1> QED BY <1>1, <1>3, <1>4, <1>5, <1>6, NoVerdictIsRight DEF Inv, Signed

LEMMA StopInv ==
  ASSUME Inv, Stop
  PROVE  Inv'
  <1>1. stage = "serving" /\ stage' = "draining" /\ drainFrom' = clock /\ clock' = clock
        /\ conf' = conf /\ launches' = launches /\ caller' = caller /\ token' = token
        /\ pinned' = pinned /\ matched' = matched /\ verdict' = NoVerdict
    BY DEF Stop
  <1>2. TypeOK'
    BY <1>1, NoVerdictIsRight, CentralOptions DEF Inv, TypeOK, Exited
  <1>3. Serves' /\ MatchedBeforeCredential'
    BY <1>1 DEF Inv, Serves, canRelay, MatchedBeforeCredential
  <1> QED BY <1>1, <1>2, <1>3, NoVerdictIsRight DEF Inv, Signed

LEMMA TickInv ==
  ASSUME Inv, Tick
  PROVE  Inv'
  <1>1. stage' = stage /\ drainFrom' = drainFrom /\ clock' = clock + 1 /\ clock < MaxClock
        /\ conf' = conf /\ launches' = launches /\ caller' = caller /\ token' = token
        /\ pinned' = pinned /\ matched' = matched /\ verdict' = NoVerdict
    BY DEF Tick
  <1>2. TypeOK'
    BY <1>1, NoVerdictIsRight, CentralOptions DEF Inv, TypeOK
  <1>3. Serves' /\ MatchedBeforeCredential'
    BY <1>1 DEF Inv, Serves, canRelay, MatchedBeforeCredential
  <1> QED BY <1>1, <1>2, <1>3, NoVerdictIsRight DEF Inv, Signed

LEMMA CallerInv ==
  ASSUME Inv, NEW c \in Callers,
         \/ Authenticate(c) \/ KeyMatched(c) \/ KeyRefused(c) \/ Arrive(c)
         \/ Answer(c) \/ Fail(c)
  PROVE  Inv'
  <1>1. Quiet
    BY DEF Authenticate, KeyMatched, KeyRefused, Arrive, Answer, Fail
  <1>2. \E s \in {"idle", "fetching", "posting", "handled"} :
            /\ caller' = [caller EXCEPT ![c] = s]
            /\ s = "handled" => stage = "serving"
            /\ s \in {"posting", "handled"} => matched'
    BY DEF Authenticate, KeyMatched, KeyRefused, Arrive, Answer, Fail, Inv, MatchedBeforeCredential
  <1>3. PICK s \in {"idle", "fetching", "posting", "handled"} :
            /\ caller' = [caller EXCEPT ![c] = s]
            /\ s = "handled" => stage = "serving"
            /\ s \in {"posting", "handled"} => matched'
    BY <1>2
  <1>4. /\ pinned' \in BOOLEAN /\ matched' \in BOOLEAN /\ (pinned' => matched')
        /\ matched => matched'
    <2>1. (pinned' = pinned /\ matched' = matched) \/ (pinned' = TRUE /\ matched' = TRUE)
      BY Zenon DEF Authenticate, KeyMatched, KeyRefused, Arrive, Answer, Fail
    <2>2. pinned \in BOOLEAN /\ matched \in BOOLEAN /\ (pinned => matched)
      BY DEF Inv, TypeOK
    <2>3. CASE pinned' = pinned /\ matched' = matched
      BY <2>2, <2>3, Zenon
    <2>4. CASE pinned' = TRUE /\ matched' = TRUE
      BY <2>4, Zenon
    <2> QED BY <2>1, <2>3, <2>4
  <1>5. caller' \in [Callers -> {"idle", "fetching", "posting", "handled"}]
        /\ (stage \in Exited => \A d \in Callers : caller'[d] # "handled")
    BY <1>3 DEF Inv, TypeOK, Exited
  <1>6. MatchedBeforeCredential'
    BY <1>3, <1>4 DEF Inv, TypeOK, MatchedBeforeCredential
  <1>7. DOMAIN token' = Callers /\ \A d \in Callers : Signed(token'[d])
    <2>1. CASE Answer(c)
      <3>1. stage \in {"serving", "draining"}
        BY <2>1 DEF Answer, Inv, TypeOK
      <3>2. Signed(Issue)
        BY <3>1, CentralOptions DEF Signed, Issue, Inv, Serves, TypeOK
      <3> QED BY <2>1, <3>2 DEF Answer, Inv
    <2>2. CASE token' = token
      BY <2>2 DEF Inv
    <2> QED BY <2>1, <2>2 DEF Authenticate, KeyMatched, KeyRefused, Arrive, Fail
  <1> QED BY <1>1, <1>4, <1>5, <1>6, <1>7, QuietInv

LEMMA UseInv ==
  ASSUME Inv, NEW c \in Callers, Use(c)
  PROVE  Inv'
  <1>1. stage' = stage /\ drainFrom' = drainFrom /\ clock' = clock
        /\ conf' = conf /\ launches' = launches /\ caller' = caller /\ token' = token
        /\ pinned' = pinned /\ matched' = matched
    BY DEF Use
  <1>2. TypeOK'
    BY <1>1, VerifyIsRight DEF Inv, TypeOK
  <1>3. Serves' /\ MatchedBeforeCredential'
    BY <1>1 DEF Inv, Serves, canRelay, MatchedBeforeCredential
  <1> QED BY <1>1, <1>2, <1>3, VerifyIsRight DEF Inv, Signed

LEMMA StepInv == Inv /\ [Next]_vars => Inv'
  <1> SUFFICES ASSUME Inv, [Next]_vars PROVE Inv'
    OBVIOUS
  <1>1. ASSUME NEW env \in Envs, Launch(env) PROVE Inv'
    BY <1>1, LaunchInv
  <1>2. CASE Stop
    BY <1>2, StopInv
  <1>3. CASE ServeFails \/ Drained \/ DrainTimedOut
    BY <1>3, exitInv DEF ServeFails, Drained, DrainTimedOut
  <1>4. CASE Tick
    BY <1>4, TickInv
  <1>5. ASSUME NEW c \in Callers,
               \/ Authenticate(c) \/ KeyMatched(c) \/ KeyRefused(c) \/ Arrive(c)
               \/ Answer(c) \/ Fail(c)
        PROVE  Inv'
    BY <1>5, CallerInv
  <1>6. ASSUME NEW c \in Callers, Use(c) PROVE Inv'
    BY <1>6, UseInv
  <1>7. CASE UNCHANGED vars
    BY <1>7 DEF vars, Inv, TypeOK, Serves, canRelay, Signed, MatchedBeforeCredential,
       VerdictIsRight
  <1> QED BY <1>1, <1>2, <1>3, <1>4, <1>5, <1>6, <1>7 DEF Next

LEMMA AlwaysInv == Spec => []Inv
  BY InitInv, StepInv, PTL DEF Spec

-----------------------------------------------------------------------------
(* Theorems *)

\* Every process keeps to its stages and every goroutine to its awaits, and no
\* request is being handled by a process that is gone (server.go:106-135).
THEOREM TypeCorrect == Spec => []TypeOK
  BY AlwaysInv, PTL DEF Inv

\* Whatever the environment: what Load accepts is built, and serves every
\* client it names (config.go:114-233, main.go:70-168, clients.go:73-122).
THEOREM AcceptedCorrect == Spec => []AcceptedIsServed
  <1>1. Inv => AcceptedIsServed
    BY DEF Inv, Serves, AcceptedIsServed
  <1> QED BY <1>1, AlwaysInv, PTL

\* Whatever keys and issuers the launches have, whatever their tokens' life:
\* a token is honoured, or refused, for the right reason (token.go:131-163).
THEOREM VerdictCorrect == Spec => []VerdictIsRight
  BY AlwaysInv, PTL DEF Inv

\* However many goroutines share a Client, no credential leaves before the key
\* matched (authclient/client.go:118-148).
THEOREM MatchedCorrect == Spec => []MatchedBeforeCredential
  BY AlwaysInv, PTL DEF Inv

=============================================================================
