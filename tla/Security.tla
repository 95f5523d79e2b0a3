------------------------------ MODULE Security ------------------------------
(***************************************************************************)
(* The pure functions of app/core/security.py: the score of a request, the *)
(* address of the visitor, the check of an upload; and what the middleware *)
(* makes of a score (logging_mw.py).  A request is the set of patterns it  *)
(* matches; what the expressions match is left out.                        *)
(***************************************************************************)
EXTENDS Integers, FiniteSetsExt, SequencesExt

CONSTANTS MaxHits,    \* bound: patterns a request matches
          MaxProxies, \* bound: trusted proxies
          MaxParts    \* bound: parts of a file name, between its dots

ASSUME SecurityAssumption == {MaxHits, MaxProxies, MaxParts} \subseteq Nat

----------------------------------------------------------------------------
(* Threats.                                                                *)

\* _THREAT_PATTERNS, in its order: tag and weight.
Patterns == <<
    <<"sqli", 60>>, <<"sqli", 50>>, <<"sqli", 55>>, <<"sqli", 55>>, <<"sqli", 45>>,
    <<"sqli", 60>>, <<"sqli", 35>>, <<"xss", 55>>, <<"xss", 40>>, <<"xss", 45>>,
    <<"xss", 45>>, <<"xss", 40>>, <<"traversal", 55>>, <<"traversal", 65>>,
    <<"traversal", 60>>, <<"cmdi", 65>>, <<"cmdi", 30>>, <<"ssrf", 35>>, <<"ssrf", 45>>,
    <<"scanner", 50>>, <<"scanner", 45>>, <<"scanner", 20>>, <<"ssti", 60>>, <<"deser", 50>> >>

Attacks == {"sqli", "xss", "traversal", "cmdi", "ssrf", "ssti", "deser"}

\* The User-Agent: none, or which of the two expressions and lengths it meets.
Agents == {"none", "plain", "tool", "long", "longTool"}
Requests == [hits : UNION {kSubset(k, DOMAIN Patterns) : k \in 0..MaxHits}, agent : Agents]

AgentTags(agent) ==
    CASE agent = "none" -> {"no_ua"}
      [] agent = "plain" -> {}
      [] agent = "tool" -> {"scanner_ua"}
      [] agent = "long" -> {"anomalous_ua"}
      [] agent = "longTool" -> {"scanner_ua", "anomalous_ua"}

AgentWeight(agent) ==
    CASE agent = "none" -> 10
      [] agent = "plain" -> 0
      [] agent = "tool" -> 35
      [] agent = "long" -> 15
      [] agent = "longTool" -> 50

Tags(r) == {Patterns[i][1] : i \in r.hits} \union AgentTags(r.agent)

\* The loop of detect_threats over the patterns.
Weight(hits) ==
    LET sum[n \in 0..Len(Patterns)] ==
            IF n = 0 THEN 0
            ELSE sum[n - 1] + (IF n \in hits THEN Patterns[n][2] ELSE 0)
    IN  sum[Len(Patterns)]

\* detect_threats
Score(r) ==
    LET sum == Weight(r.hits) + AgentWeight(r.agent)
    IN  IF sum < 100 THEN sum ELSE 100

\* severity_from_score, as a rank: info, low, medium, high, critical.
Severity(score) ==
    Cardinality({limit \in {15, 35, 60, 80} : score >= limit})

\* The middleware makes an event of it.
Alerts(r) == Score(r) >= 35

\* sorted(tags)
Sorted == <<"anomalous_ua", "cmdi", "deser", "no_ua", "scanner", "scanner_ua", "sqli",
            "ssrf", "ssti", "traversal", "xss">>

\* The first of some tags.
FirstTag(tags) == Sorted[Min({i \in DOMAIN Sorted : Sorted[i] \in tags})]

\* Variant: simply the first tag.
PrimaryFirst(r) == IF Tags(r) # {} THEN FirstTag(Tags(r)) ELSE "suspicious"

\* The type of the event: the first attack, else the first tag.
Primary(r) ==
    LET attacks == Tags(r) \intersect Attacks
    IN  IF attacks # {} THEN FirstTag(attacks)
        ELSE IF Tags(r) # {} THEN FirstTag(Tags(r)) ELSE "suspicious"

\* An event is never below medium and names an attack if one was found; two
\* kinds of attack are high at least; one more match never lowers a severity;
\* the score fits its column.
RightAlert(r) ==
    LET kinds == Tags(r) \intersect Attacks IN
    /\ Score(r) \in 0..100
    /\ Alerts(r) => Severity(Score(r)) >= 2 /\ Primary(r) \in Tags(r)
    /\ kinds # {} => Primary(r) \in Attacks
    /\ Cardinality(kinds) > 1 => Alerts(r) /\ Severity(Score(r)) >= 3
    /\ \A i \in DOMAIN Patterns \ r.hits :
         Severity(Score([r EXCEPT !.hits = @ \union {i}])) >= Severity(Score(r))

----------------------------------------------------------------------------
(* The address of the visitor.                                             *)

\* What a client sends in X-Forwarded-For, the trusted proxies, whether the first
\* of them is Cloudflare, and what the client sends in CF-Connecting-IP.  "?" is
\* no address, "" an empty entry or no header.
Chains == [sent : UNION {[1..n -> {"other", "?", ""}] : n \in 0..3},
           proxies : 1..MaxProxies, edge : BOOLEAN, cf : {"", "?", "other"}]

\* Each trusted proxy appends the address it was connected from.
Forwarded(c) ==
    c.sent \o [i \in 1..c.proxies |-> IF i = 1 THEN "visitor" ELSE "proxy"]

\* Cloudflare writes CF-Connecting-IP; nginx passes on what it gets.
CfHeader(c) == IF c.edge THEN "visitor" ELSE c.cf

Valid(address) == address \notin {"", "?"}

\* get_client_ip with TRUSTED_PROXY_COUNT = c.proxies: parts is what is not empty,
\* and parts[idx] has idx of them before it.
ClientIp(c) ==
    LET parts == {i \in DOMAIN Forwarded(c) : Forwarded(c)[i] # ""}
        hops == IF c.proxies > 1 THEN c.proxies ELSE 1
        idx == IF Cardinality(parts) > hops THEN Cardinality(parts) - hops ELSE 0
        candidate == Forwarded(c)[CHOOSE i \in parts : Cardinality({j \in parts : j < i}) = idx]
    IN  IF Valid(CfHeader(c)) THEN CfHeader(c)
        ELSE IF Valid(candidate) THEN candidate
        ELSE Last(Forwarded(c))

\* With as many hops as configured the address is the visitor's, whatever
\* entries, broken ones too, X-Forwarded-For had before the first trusted proxy.
\* The exception is a client that reaches nginx without Cloudflare: a valid
\* CF-Connecting-IP of its own is believed.
RightAddress(c) == ClientIp(c) = IF Valid(c.cf) /\ ~c.edge THEN c.cf ELSE "visitor"

----------------------------------------------------------------------------
(* Uploads.                                                                *)

\* A name is split at its dots.  Of the extensions one stands for those that are
\* executable, two for those whose contents are looked at, one for the others that
\* are allowed; upper case and blanks are classes of their own.
Parts == {"a", "", "php", "PHP", "php ", "png", "PNG", "png ", "gif", "txt"}

\* _MAGIC_SIGNATURES, one for each extension that is looked at.
Signatures == {"png", "gif"}

\* The first bytes: none, a signature, anything else.
Heads == {"", "png", "gif", "text"}
Files == [name : UNION {[1..n -> Parts] : n \in 1..MaxParts}, head : Heads]

Lower(part) == CASE part = "PHP" -> "php" [] part = "PNG" -> "png" [] OTHER -> part
Trim(part) == CASE part = "php " -> "php" [] part = "png " -> "png" [] OTHER -> part

\* get_extension
Extension(name) == IF Len(name) = 1 THEN "" ELSE Trim(Lower(Last(name)))

\* is_safe_upload: the contents have any of the signatures.
SafeUpload(f) ==
    LET ext == Extension(f.name)
        middle == {f.name[i] : i \in 2..(Len(f.name) - 1)}
    IN  /\ ext \notin {"", "php"}
        /\ ext \in {"png", "gif", "txt"}
        /\ \A part \in middle : Lower(part) # "php"
        /\ ext \in Signatures /\ f.head # "" => f.head \in Signatures

\* Accepted is exactly a name with an allowed extension and, between its first
\* and its last dot, nothing executable in any case of letters, unless a blank
\* follows it; what is called an image is empty or an image, of this kind or
\* another.
RightUpload(f) ==
    SafeUpload(f) <=>
        /\ Len(f.name) > 1
        /\ {f.name[i] : i \in 2..(Len(f.name) - 1)} \intersect {"php", "PHP"} = {}
        /\ Last(f.name) \in {"txt", "gif", "png", "PNG", "png "}
        /\ Last(f.name) # "txt" => f.head # "text"
=============================================================================
