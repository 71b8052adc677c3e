------------------------------ MODULE Central -------------------------------
(***************************************************************************)
(* The central process over its launches, and the peers that authenticate  *)
(* to it: run() from the environment to the drain, POST /auth and its      *)
(* token, RequireToken, and one authclient.Client shared by several        *)
(* goroutines, which outlives the processes it talks to.  A launch may     *)
(* come with another signing key, which is how a key is rotated.           *)
(*                                                                         *)
(* Time is in half seconds: a token's exp claim and a relay username count *)
(* whole seconds, the moments they are cut from do not.                    *)
(***************************************************************************)
EXTENDS Startup, FiniteSets

CONSTANTS Envs,          \* the environments the process is launched with
          Callers,       \* goroutines that share the authclient.Client
          ExpectedKey,   \* the key the Client is configured with
          MaxLaunches,   \* bound on the launches
          MaxClock       \* bound on the clock

ASSUME CentralOptions ==
    ExpectedKey \in Seeds /\ MaxLaunches \in Nat /\ MaxClock \in Nat

\* A variable that is not set is its fallback.
ASSUME Environments ==
    \A env \in Envs :
        /\ DOMAIN env = DOMAIN Fallback
        /\ \A k \in DurationKeys \cup WholeKeys : env[k] \in Int
        /\ env.CLIENTS \in Seq(ClientConfig)

VARIABLES stage,      \* where the process is
          conf,       \* what it was built from, as far as requests tell
          clock,
          drainFrom,  \* when the drain began
          launches,
          caller,     \* the goroutines, each at its await
          token,      \* the token each one holds
          pinned,     \* Client.pinned is set
          matched,    \* history: a key set with the expected key was read
          verdict     \* what RequireToken answered, when that was the last step

vars == <<stage, conf, clock, drainFrom, launches, caller, token, pinned,
          matched, verdict>>

Exited == {"down", "refused", "broken", "unbound", "stopped"}

NoToken == [key |-> "", issuer |-> "", issuedAt |-> 0, expiresAt |-> 0, exp |-> 0]

NoVerdict == [result |-> "none", by |-> NoToken]

\* What the handlers read of the Config.
kept(c) ==
    [key |-> c.TOKEN_SIGNING_KEY, issuer |-> c.ISSUER, ttl |-> c.TOKEN_TTL,
     clients |-> c.CLIENTS, relay |-> c.TURN_URLS # {}, secret |-> c.TURN_SECRET,
     credentialTTL |-> c.TURN_CREDENTIAL_TTL, shutdown |-> c.SHUTDOWN_TIMEOUT]

NoConf == kept(settle(Fallback))

TypeOK ==
    /\ stage \in Exited \cup {"serving", "draining"}
    /\ clock \in 0..MaxClock /\ drainFrom \in 0..clock /\ launches \in 0..MaxLaunches
    /\ caller \in [Callers -> {"idle", "fetching", "posting", "handled"}]
    /\ \A c \in Callers : token[c] = NoToken \/ token[c].key \in Seeds
    /\ pinned \in BOOLEAN /\ matched \in BOOLEAN
    /\ verdict.result \in {"none", "served", "expired", "invalid"}
    /\ (stage \in Exited) => \A c \in Callers : caller[c] # "handled"

Init ==
    /\ stage = "down" /\ conf = NoConf /\ clock = 0 /\ drainFrom = 0 /\ launches = 0
    /\ caller = [c \in Callers |-> "idle"] /\ token = [c \in Callers |-> NoToken]
    /\ pinned = FALSE /\ matched = FALSE /\ verdict = NoVerdict

-----------------------------------------------------------------------------
(* Tokens and relay credentials *)

\* Rounded up instead.
Mutant_truncate(t) == t + (t % Second)

\* jwt.NewNumericDate and Time.Unix drop the fraction of a second.
truncate(t) == t - (t % Second)

Issue ==
    [key |-> conf.key, issuer |-> conf.issuer, issuedAt |-> clock,
     expiresAt |-> clock + conf.ttl, exp |-> truncate(clock + conf.ttl)]

\* The signature first; then the claims, of which an expiry is told before a
\* wrong issuer.
Verify(t) ==
    IF t.key # conf.key THEN "invalid"
    ELSE IF clock >= t.exp THEN "expired"
    ELSE IF t.issuer # conf.issuer THEN "invalid"
    ELSE "served"

\* POST /auth reads the identifier of this client, and Issue names its peer.
canAuthenticate(c) == c.idLen \in 1..MaxClientIDLen /\ c.peerLen > 0

\* Provider.For and NewCredential for the peer of this client.
canRelay(c) ==
    conf.relay => c.peerLen > 0 /\ c.plain /\ conf.secret # "" /\ conf.credentialTTL > 0

-----------------------------------------------------------------------------
(* The process *)

\* The process is gone, and whoever it was handling a request of sees the
\* connection go.
exit ==
    /\ stage' = "stopped" /\ conf' = NoConf /\ drainFrom' = 0
    /\ caller' = [c \in Callers |-> IF caller[c] = "handled" THEN "idle" ELSE caller[c]]
    /\ verdict' = NoVerdict
    /\ UNCHANGED <<clock, launches, token, pinned, matched>>

\* How far run() gets: the configuration is refused, a constructor fails, the
\* address is taken, or it serves.
outcomes(env) ==
    LET l == Load(env)
    IN  IF l.problems # {} THEN {"refused"}
        ELSE IF ~Builds(l.conf) THEN {"broken"}
        ELSE {"unbound", "serving"}

Launch(env) ==
    /\ stage \in Exited /\ launches < MaxLaunches
    /\ launches' = launches + 1
    /\ stage' \in outcomes(env)
    /\ conf' = IF stage' = "serving" THEN kept(Load(env).conf) ELSE NoConf
    /\ verdict' = NoVerdict
    /\ UNCHANGED <<clock, drainFrom, caller, token, pinned, matched>>

\* A signal: the listener closes and Shutdown waits for the handlers.
Stop ==
    /\ stage = "serving"
    /\ stage' = "draining" /\ drainFrom' = clock
    /\ verdict' = NoVerdict
    /\ UNCHANGED <<conf, clock, launches, caller, token, pinned, matched>>

\* Serve fails by itself, and Run returns without a drain.
ServeFails == stage = "serving" /\ exit

Drained == stage = "draining" /\ (\A c \in Callers : caller[c] # "handled") /\ exit

\* The deadline: Close, on what is left.
DrainTimedOut == stage = "draining" /\ clock - drainFrom >= conf.shutdown /\ exit

Tick ==
    /\ clock < MaxClock
    /\ clock' = clock + 1
    /\ verdict' = NoVerdict
    /\ UNCHANGED <<stage, conf, drainFrom, launches, caller, token, pinned, matched>>

-----------------------------------------------------------------------------
(* authclient.Client.Authenticate, and the token put to use *)

Quiet == verdict' = NoVerdict /\ UNCHANGED <<stage, conf, clock, drainFrom, launches>>

\* VerifyServerKey returns at once when the pin is set.
Authenticate(c) ==
    /\ caller[c] = "idle"
    /\ caller' = [caller EXCEPT ![c] = IF pinned THEN "posting" ELSE "fetching"]
    /\ Quiet /\ UNCHANGED <<token, pinned, matched>>

\* fetchKey found the expected key in the set the process publishes.
KeyMatched(c) ==
    /\ caller[c] = "fetching" /\ stage = "serving" /\ conf.key = ExpectedKey
    /\ pinned' = TRUE /\ matched' = TRUE
    /\ caller' = [caller EXCEPT ![c] = "posting"]
    /\ Quiet /\ UNCHANGED token

\* The fetch counts as made, whatever came of it.
Mutant_KeyRefused(c) ==
    /\ caller[c] = "fetching"
    /\ stage # "serving" \/ conf.key # ExpectedKey
    /\ pinned' = TRUE
    /\ caller' = [caller EXCEPT ![c] = "idle"]
    /\ Quiet /\ UNCHANGED <<token, matched>>

\* It did not, or the key set could not be read.
KeyRefused(c) ==
    /\ caller[c] = "fetching"
    /\ stage # "serving" \/ conf.key # ExpectedKey
    /\ caller' = [caller EXCEPT ![c] = "idle"]
    /\ Quiet /\ UNCHANGED <<token, pinned, matched>>

\* The process accepts the POST.
Arrive(c) ==
    /\ caller[c] = "posting" /\ stage = "serving"
    /\ caller' = [caller EXCEPT ![c] = "handled"]
    /\ Quiet /\ UNCHANGED <<token, pinned, matched>>

\* The handler issues, and the answer reaches the caller.
Answer(c) ==
    /\ caller[c] = "handled"
    /\ token' = [token EXCEPT ![c] = Issue]
    /\ caller' = [caller EXCEPT ![c] = "idle"]
    /\ Quiet /\ UNCHANGED <<pinned, matched>>

\* No connection, a refused credential, or a spent allowance.
Fail(c) ==
    /\ caller[c] \in {"posting", "handled"}
    /\ caller' = [caller EXCEPT ![c] = "idle"]
    /\ Quiet /\ UNCHANGED <<token, pinned, matched>>

\* A request behind RequireToken, or the upgrade of a channel.
Use(c) ==
    /\ stage = "serving" /\ token[c] # NoToken
    /\ verdict' = [result |-> Verify(token[c]), by |-> token[c]]
    /\ UNCHANGED <<stage, conf, clock, drainFrom, launches, caller, token, pinned, matched>>

Next ==
    \/ \E env \in Envs : Launch(env)
    \/ Stop \/ ServeFails \/ Drained \/ DrainTimedOut \/ Tick
    \/ \E c \in Callers :
          \/ Authenticate(c) \/ KeyMatched(c) \/ KeyRefused(c) \/ Arrive(c)
          \/ Answer(c) \/ Fail(c) \/ Use(c)

Spec == Init /\ [][Next]_vars

-----------------------------------------------------------------------------
(* Properties *)

\* What Load accepts is built and serves everyone it names: every constructor
\* takes it, so that only the bind can still refuse to start, and each client
\* whose identifier POST /auth reads gets a token and the ICE configuration,
\* the relay credential included (config.go:1-6, main.go:70-168,
\* clients.go:13-19, transport/ice.go:26-31).
AcceptedIsServed ==
    /\ stage # "broken"
    /\ stage = "serving" =>
          \A i \in DOMAIN conf.clients :
              conf.clients[i].idLen <= MaxClientIDLen =>
                  canAuthenticate(conf.clients[i]) /\ canRelay(conf.clients[i])

\* A token is honoured only by a process with the key and the issuer it was
\* signed with, whichever launch that is, and never at or after the moment its
\* holder was told it expires; and it is never refused for nothing: told it
\* expired, its holder had less than a second of what it was promised left, and
\* told it is invalid, the key or the issuer did change (R1.3, R2.1, R2.3).
VerdictIsRight ==
    LET t == verdict.by
        signedHere == t.key = conf.key /\ t.issuer = conf.issuer
    IN  /\ verdict.result = "served"  => signedHere /\ clock < t.expiresAt
        /\ verdict.result = "expired" => t.key = conf.key /\ clock > t.expiresAt - Second
        /\ verdict.result = "invalid" => ~signedHere

\* Whichever goroutine of the Client fetched it, a key set with the expected key
\* was read before any credential is on its way (authclient/client.go:118-148).
MatchedBeforeCredential ==
    (\E c \in Callers : caller[c] \in {"posting", "handled"}) => matched

=============================================================================
