------------------------------ MODULE Startup -------------------------------
(***************************************************************************)
(* What cmd/central decides before it listens: config.Load over an         *)
(* environment, and the constructors run() then calls with what it loaded. *)
(*                                                                         *)
(* Numbers and durations are integers (durations in half seconds); one     *)
(* that does not parse is NotANumber.  Lists are sets of entries, keys,    *)
(* URLs and identifiers are named for what the code tells apart.           *)
(***************************************************************************)
EXTENDS Integers, Sequences

CONSTANTS MaxPeerIDLen, MinSecretLen,   \* auth/clients.go
          MaxClientIDLen                \* transport/auth.go

ASSUME StartupLimits ==
    MaxPeerIDLen \in Nat /\ MinSecretLen \in Nat /\ MaxClientIDLen \in Nat

NotANumber == -1

DurationKeys == {"SHUTDOWN_TIMEOUT", "TOKEN_TTL", "AUTH_FAILURE_WINDOW",
    "HEARTBEAT_INTERVAL", "SUSPECT_AFTER", "OFFLINE_AFTER", "NEGOTIATION_TIMEOUT",
    "SESSION_RETENTION", "EXPIRY_INTERVAL", "SIGNAL_WINDOW", "TURN_CREDENTIAL_TTL"}

WholeKeys == {"AUTH_MAX_FAILURES", "MAX_PEERS", "MAX_SESSIONS", "MAX_SESSIONS_PER_PEER",
    "MAX_SIGNAL_MESSAGE_BYTES", "SIGNAL_MESSAGES_PER_WINDOW"}

Second == 2

\* What Load falls back to when a variable is not set.  There is no default
\* for the clients, the signing key and the origins.
Fallback ==
    [LISTEN_ADDR |-> "host:port", SHUTDOWN_TIMEOUT |-> 15 * Second,
     ALLOWED_ORIGINS |-> {}, TOKEN_SIGNING_KEY |-> "", TOKEN_SIGNING_KEY_FILE |-> "",
     TOKEN_TTL |-> 3600 * Second, ISSUER |-> "dc-streaming-p2p",
     CLIENTS |-> << >>, AUTH_MAX_FAILURES |-> 10, AUTH_FAILURE_WINDOW |-> 300 * Second,
     HEARTBEAT_INTERVAL |-> 15 * Second, SUSPECT_AFTER |-> 30 * Second,
     OFFLINE_AFTER |-> 60 * Second, NEGOTIATION_TIMEOUT |-> 120 * Second,
     MAX_PEERS |-> 10000, MAX_SESSIONS |-> 10000, MAX_SESSIONS_PER_PEER |-> 64,
     SESSION_RETENTION |-> 600 * Second, EXPIRY_INTERVAL |-> 15 * Second,
     MAX_SIGNAL_MESSAGE_BYTES |-> 131072, SIGNAL_MESSAGES_PER_WINDOW |-> 120,
     SIGNAL_WINDOW |-> 60 * Second, STUN_URLS |-> {"stun:host"}, TURN_URLS |-> {},
     TURN_SECRET |-> "", TURN_CREDENTIAL_TTL |-> 600 * Second]

-----------------------------------------------------------------------------
(* config.Load *)

\* duration and whole: what is not above zero is a problem and reads as zero.
number(raw) == IF raw > 0 THEN raw ELSE 0

splitList(entries) == entries \ {""}

\* A seed of the right length, base64; a file wins over the variable.
Seeds == {"seed one", "seed two"}

loadSigningKey(inline, path) ==
    LET raw == IF path # "" THEN path ELSE inline
    IN  IF raw \in Seeds THEN raw ELSE ""

\* The identifiers trimmed, and whether the peer identifier keeps to the
\* allowed characters.
ClientConfig ==
    [id : STRING, idLen : Nat, peer : STRING, peerLen : Nat, plain : BOOLEAN,
     secretLen : Nat]

badClient(c) ==
    \/ c.idLen = 0 \/ c.peerLen = 0
    \/ c.peerLen > MaxPeerIDLen
    \/ ~c.plain
    \/ c.secretLen < MinSecretLen

\* NewClientStore refuses the list as a whole.
NewClientStore(clients) ==
    /\ clients # << >>
    /\ \A i \in DOMAIN clients :
          /\ ~badClient(clients[i])
          /\ \A j \in 1..(i - 1) : clients[j].id # clients[i].id

validateICEURLs(urls, schemes) == \A u \in urls : u \in schemes

\* Windows of the same length are let through.
Mutant_windows(c) ==
    {k \in {"SUSPECT_AFTER", "OFFLINE_AFTER"} :
        LET shorter == IF k = "SUSPECT_AFTER" THEN c.HEARTBEAT_INTERVAL ELSE c.SUSPECT_AFTER
        IN  c[k] > 0 /\ shorter > 0 /\ c[k] < shorter}

\* Presence windows in the order they have to come in; one that was refused
\* already is not compared.
windows(c) ==
    {k \in {"SUSPECT_AFTER", "OFFLINE_AFTER"} :
        LET shorter == IF k = "SUSPECT_AFTER" THEN c.HEARTBEAT_INTERVAL ELSE c.SUSPECT_AFTER
        IN  c[k] > 0 /\ shorter > 0 /\ c[k] <= shorter}

problem(k, holds) == IF holds THEN {k} ELSE {}

\* Problems name the variable at fault, all of them.
validate(c) ==
    UNION {windows(c),
           problem("LISTEN_ADDR", c.LISTEN_ADDR # "host:port"),
           problem("TOKEN_SIGNING_KEY", c.TOKEN_SIGNING_KEY = ""),
           problem("ALLOWED_ORIGINS", c.ALLOWED_ORIGINS = {}),
           problem("ISSUER", c.ISSUER = ""),
           problem("STUN_URLS", ~validateICEURLs(c.STUN_URLS, {"stun:host"})),
           problem("TURN_URLS", ~validateICEURLs(c.TURN_URLS, {"turn:host"})),
           problem("TURN_SECRET", (c.TURN_URLS = {}) = (c.TURN_SECRET # ""))}

setting(env, k) ==
    IF k \in DurationKeys \cup WholeKeys THEN number(env[k])
    ELSE IF k \in {"ALLOWED_ORIGINS", "STUN_URLS", "TURN_URLS"} THEN splitList(env[k])
    ELSE IF k = "TOKEN_SIGNING_KEY"
         THEN loadSigningKey(env.TOKEN_SIGNING_KEY, env.TOKEN_SIGNING_KEY_FILE)
    ELSE env[k]

\* The Config an environment reads as.
settle(env) == [k \in DOMAIN env |-> setting(env, k)]

Load(env) ==
    LET c == settle(env)
    IN  [conf     |-> c,
         problems |-> {k \in DurationKeys \cup WholeKeys : env[k] <= 0}
                      \cup problem("CLIENTS", ~NewClientStore(env.CLIENTS))
                      \cup validate(c)]

-----------------------------------------------------------------------------
(* What run() builds from it *)

NewTokenIssuer(c) == c.TOKEN_SIGNING_KEY # "" /\ c.ISSUER # "" /\ c.TOKEN_TTL > 0

NewAttemptLimiter(c) == c.AUTH_MAX_FAILURES > 0 /\ c.AUTH_FAILURE_WINDOW > 0

NewRegistry(c) ==
    /\ c.HEARTBEAT_INTERVAL > 0
    /\ c.SUSPECT_AFTER > c.HEARTBEAT_INTERVAL
    /\ c.OFFLINE_AFTER > c.SUSPECT_AFTER

NewSessions(c) == c.NEGOTIATION_TIMEOUT > 0 /\ c.SESSION_RETENTION >= 0

NewProvider(c) ==
    c.TURN_URLS # {} => c.TURN_SECRET # "" /\ c.TURN_CREDENTIAL_TTL > 0

Builds(c) ==
    /\ NewClientStore(c.CLIENTS) /\ NewTokenIssuer(c) /\ NewAttemptLimiter(c)
    /\ NewRegistry(c) /\ NewSessions(c) /\ NewProvider(c)

=============================================================================
