-------------------------- MODULE ReleasePreflight --------------------------
(***************************************************************************)
(* The release preflight (release_preflight.py): one run asks the public   *)
(* endpoints one after the other, each of which may be down, unavailable   *)
(* or incomplete when it is asked, and says whether everything that the    *)
(* configuration requires is in place.                                     *)
(*                                                                         *)
(* A document is the set of the things that are right about it.            *)
(***************************************************************************)
EXTENDS Naturals, FiniteSets, Sequences

CONSTANTS MaxWrong,  \* things wrong with one document, a bound on the model
          MaxFaulty  \* answers with something wrong, another one

PreflightAssumption == MaxWrong \in Nat /\ MaxFaulty \in Nat

Modes == {"cimd", "dcr", "predefined"}
PublicUrls == {"website", "support", "privacy", "terms"}

VARIABLES config,   \* ReleasePreflightConfig
          stage,    \* requests made
          passed,   \* names of the checks that passed
          failed,   \* and of those that did not
          outcome,  \* of the run: running, reported or crashed
          answers   \* what every endpoint answered, as long as one did

vars == <<config, stage, passed, failed, outcome, answers>>

Init ==
  /\ config \in [mode : Modes, require_userinfo : BOOLEAN, challenge : BOOLEAN]
  /\ stage = 0 /\ outcome = "running"
  /\ passed = {} /\ failed = {}
  /\ answers = <<>>

\* The requests in their order.
Stages ==
  <<"liveness", "readiness", "resource_metadata", "oauth_challenge", "discovery",
    "website", "support", "privacy", "terms">>
    \o IF config.challenge THEN <<"domain_challenge">> ELSE <<>>

-----------------------------------------------------------------------------
(* The documents and the checks of them. *)

ResourceMembers == {"resource", "authorization_servers", "scopes_supported"}

\* auth: a method of a public client is supported; secret: one with a secret.
OAuthMembers ==
  {"issuer", "authorization_endpoint", "token_endpoint", "S256", "scopes_supported",
   "client_id_metadata_document_supported", "auth", "secret", "registration_endpoint",
   "userinfo_endpoint", "email_scopes"}

\* What can be right about an answer: its status, its target for the public
\* URLs and the challenge, and the members of the two documents.
Members(s) ==
  CASE s = "resource_metadata" -> ResourceMembers
    [] s = "discovery" -> OAuthMembers
    [] s \in PublicUrls -> {"https"}
    [] s = "oauth_challenge" -> {"401", "metadata_url"}
    [] s = "domain_challenge" -> {"token"}
    [] OTHER -> {}

Documents(s) == {d \in SUBSET Members(s) : Cardinality(Members(s) \ d) <= MaxWrong}

validate_resource_metadata(d) == [check \in ResourceMembers |-> check \in d]

Registers(d) ==
  CASE config.mode = "cimd" -> "client_id_metadata_document_supported" \in d /\ "auth" \in d
    [] config.mode = "dcr" -> "registration_endpoint" \in d
    [] config.mode = "predefined" -> "auth" \in d \/ "secret" \in d

OAuthChecks ==
  {"issuer", "authorization_endpoint", "token_endpoint", "S256", "scopes_supported",
   "client_registration"}
    \union IF config.require_userinfo THEN {"userinfo_endpoint", "email_scopes"} ELSE {}

validate_oauth_metadata(d) ==
  [check \in OAuthChecks |-> IF check = "client_registration" THEN Registers(d) ELSE check \in d]

\* The checks made of an answer with the expected status.
Checks(s, d) ==
  IF s = "resource_metadata" THEN validate_resource_metadata(d)
  ELSE IF s = "discovery" THEN validate_oauth_metadata(d)
  ELSE [check \in {s} |-> d = Members(s)]

-----------------------------------------------------------------------------
(* run_release_preflight and main. *)

Asked == Stages[stage + 1]

\* The checks of an answer have a name of their own.
Named(s, checks) == {<<s, check>> : check \in checks}

Record(s, checks) ==
  /\ passed' = passed \union Named(s, {c \in DOMAIN checks : checks[c]})
  /\ failed' = failed \union Named(s, {c \in DOMAIN checks : ~checks[c]})

More == /\ outcome = "running" /\ stage < Len(Stages)
        /\ stage' = stage + 1

Right(s) == [served |-> TRUE, right |-> Members(s)]
MayBeWrong == Cardinality({i \in DOMAIN answers : answers[i] # Right(Stages[i])}) < MaxFaulty

Served(d) ==
  /\ More
  /\ d = Members(Asked) \/ MayBeWrong
  /\ answers' = Append(answers, [served |-> TRUE, right |-> d])
  /\ Record(Asked, Checks(Asked, d))
  /\ UNCHANGED <<config, outcome>>

\* Faulty: a document that is unavailable is not a failed check.
UnavailablePasses ==
  IF Asked \in {"resource_metadata", "discovery"} THEN <<>> ELSE [check \in {Asked} |-> FALSE]

Unavailable ==
  [check \in {IF Asked \in {"resource_metadata", "discovery"} THEN "available" ELSE Asked} |-> FALSE]

\* The answer has another status.
Refused ==
  /\ More /\ MayBeWrong
  /\ answers' = Append(answers, [served |-> FALSE, right |-> {}])
  /\ Record(Asked, Unavailable)
  /\ UNCHANGED <<config, outcome>>

Transport == failed' = failed \union {<<"preflight", "transport">>}

\* The endpoint is down, or its document is too long, no JSON or no object:
\* the run ends there.
Fails ==
  /\ More
  /\ Transport
  /\ outcome' = "reported"
  /\ UNCHANGED <<config, passed, answers>>

\* A member of an unexpected type, such as null for the challenge methods,
\* raises TypeError, which nothing catches.
Crashes ==
  /\ More
  /\ Asked \in {"resource_metadata", "discovery"}
  /\ outcome' = "crashed"
  /\ UNCHANGED <<config, passed, failed, answers>>

Report ==
  /\ outcome = "running" /\ stage = Len(Stages)
  /\ outcome' = "reported"
  /\ UNCHANGED <<config, stage, passed, failed, answers>>

Next ==
  \/ outcome = "running" /\ stage < Len(Stages) /\ \E d \in Documents(Asked) : Served(d)
  \/ Refused
  \/ Fails
  \/ Crashes
  \/ Report

Spec == Init /\ [][Next]_vars

ok == outcome = "reported" /\ failed = {}

-----------------------------------------------------------------------------
(* Properties. *)

\* What a release needs of the OAuth document, in one set per configuration.
Needs(s) ==
  IF s # "discovery" THEN {Members(s)}
  ELSE {{"issuer", "authorization_endpoint", "token_endpoint", "S256", "scopes_supported"}
          \union registration
          \union (IF config.require_userinfo THEN {"userinfo_endpoint", "email_scopes"} ELSE {}) :
        registration \in
          CASE config.mode = "cimd" -> {{"client_id_metadata_document_supported", "auth"}}
            [] config.mode = "dcr" -> {{"registration_endpoint"}}
            [] config.mode = "predefined" -> {{"auth"}, {"secret"}}}

InPlace(s) ==
  \E i \in DOMAIN answers :
    Stages[i] = s /\ answers[i].served /\ \E need \in Needs(s) : need \subseteq answers[i].right

Required ==
  {"liveness", "readiness", "resource_metadata", "oauth_challenge", "discovery"}
    \union PublicUrls \union (IF config.challenge THEN {"domain_challenge"} ELSE {})

\* The preflight passes exactly when every endpoint the configuration requires
\* has answered with all that a release needs of it: nothing is skipped when
\* an endpoint is down or a document unavailable, and nothing fails that is
\* not required (release_preflight.py:204-313).
OkIsExact == outcome = "reported" => (ok <=> \A s \in Required : InPlace(s))

\* The preflight of a release in mode cimd with its domain challenge makes 17
\* checks, each under its own name, and so says all that it was asked
\* (submission/FINAL_CHECKLIST.md:46, release_preflight.py:215-302).
SeventeenChecks ==
  ok /\ config.mode = "cimd" /\ ~config.require_userinfo /\ config.challenge =>
    Cardinality(passed) = 17
=============================================================================
