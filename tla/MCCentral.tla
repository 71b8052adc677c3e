----------------------------- MODULE MCCentral ------------------------------
(***************************************************************************)
(* Small instances of Central for TLC: environments that differ in one or  *)
(* two variables from one that starts, with and without a relay, each set  *)
(* to the values at which some check changes its mind.                     *)
(***************************************************************************)
EXTENDS Central, TLC

CONSTANTS c1, c2

MCCallers == {c1, c2}

CallerSymmetry == Permutations(MCCallers)

client == [id |-> "a", idLen |-> 1, peer |-> "p", peerLen |-> 1, plain |-> TRUE,
           secretLen |-> MinSecretLen]

Complete ==
    [Fallback EXCEPT !.TOKEN_SIGNING_KEY = "seed one", !.ALLOWED_ORIGINS = {"origin"},
                     !.CLIENTS = <<client>>]

Clients ==
    {<< >>, <<client, client>>} \cup
    {<<client, [client EXCEPT !.id = "b", !.idLen = n]>> : n \in {0, 1, MaxClientIDLen + 1}} \cup
    {<<[client EXCEPT !.peerLen = n]>> : n \in {0, MaxPeerIDLen, MaxPeerIDLen + 1}} \cup
    {<<[client EXCEPT !.plain = FALSE]>>, <<[client EXCEPT !.secretLen = MinSecretLen - 1]>>}

Variables == DOMAIN Complete

Values(k) ==
    CASE k = "CLIENTS"                -> Clients
      [] k = "LISTEN_ADDR"            -> {"host"}
      [] k = "ALLOWED_ORIGINS"        -> {{}, {""}, {"*", ""}}
      [] k = "TOKEN_SIGNING_KEY"      -> {"", "short", "seed two"}
      [] k = "TOKEN_SIGNING_KEY_FILE" -> {"unreadable", "seed two"}
      [] k = "ISSUER"                 -> {"other"}
      [] k = "STUN_URLS"              -> {{}, {"stun:"}, {"stun:host", "http://host"}}
      [] k = "TURN_URLS"              -> {{"turn:host"}, {"turn:host", "stun:host"}, {""}}
      [] k = "TURN_SECRET"            -> {"secret"}
      [] k = "TOKEN_TTL"              -> {NotANumber, 0, 1, 3}
      [] k = "SHUTDOWN_TIMEOUT"       -> {NotANumber, 0, 1}
      [] k \in {"HEARTBEAT_INTERVAL", "SUSPECT_AFTER", "OFFLINE_AFTER"} ->
            {NotANumber, 0, 30, 60, 120}
      [] OTHER                        -> {NotANumber, 0, 1}

WithRelay == [Complete EXCEPT !.TURN_URLS = {"turn:host"}, !.TURN_SECRET = "secret"]

\* Variables that some check reads together, or that matter together later.
Related ==
    {{k} : k \in DOMAIN Complete} \cup
    {{"HEARTBEAT_INTERVAL", "SUSPECT_AFTER"}, {"SUSPECT_AFTER", "OFFLINE_AFTER"},
     {"TOKEN_SIGNING_KEY", "TOKEN_SIGNING_KEY_FILE"}, {"TURN_URLS", "TURN_SECRET"},
     {"TOKEN_SIGNING_KEY", "TOKEN_TTL"}, {"ISSUER", "TOKEN_TTL"}}

MCEnvs ==
    UNION {{[e EXCEPT ![k] = v, ![l] = w] : v \in Values(k), w \in Values(l)} :
              <<e, k, l>> \in {x \in {Complete, WithRelay} \X Variables \X Variables :
                                {x[2], x[3]} \in Related}}

=============================================================================
