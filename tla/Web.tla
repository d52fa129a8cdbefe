-------------------------------- MODULE Web ---------------------------------
(***************************************************************************)
(* The web tools of packages/tools/filesystem: os.http.request             *)
(* (http-request.ts, http-request-fetch.ts), os.web.fetch (web-fetch.ts)   *)
(* and os.web.search (web-search/), with the guard they share: the host of *)
(* every hop is resolved, an address of a private range refuses it, and    *)
(* curl is pinned to an address that was checked (web-fetch-ssrf-guard.ts).*)
(*                                                                         *)
(* Any number of calls run at once; an await is a step of its own, so that *)
(* the answers of the DNS and the cache of the searches may change in      *)
(* between.  The bodies of requests and answers are their kinds; a host    *)
(* name is the sequence of its labels and an address that of its octets or *)
(* hextets, which the code parses from text.                               *)
(***************************************************************************)
EXTENDS Integers, SequencesExt

CONSTANTS
    WebCalls,      \* calls of the tools
    WebRequests,   \* what they are called with: see HttpArgs, and a query for a search
    WebConfigs,    \* config.http and config.web.search
    Responses,     \* what a server answers: status, redirect, body
    DnsAnswers,    \* what a name may resolve to: sequences of addresses, <<>> for a failure
    HostNames,     \* the names that are resolved
    NoUrl,         \* an answer without redirect_url
    ProviderUrls,  \* where each search provider is asked
    CacheTtl, CacheSize,                    \* of the searches, DEFAULT_MAX_ENTRIES
    MaxClock, MaxDnsChanges, MaxCurlFaults  \* bounds: time, changes of the DNS, failing curls

\* The octets of an IPv4 address or the hextets of an IPv6 address.
Octets == 0 .. 255
Hextets == {h \in Nat : h < 65536}
Address == [1 .. 4 -> Octets] \cup [1 .. 8 -> Hextets]

\* A URL whose host is no address has a name to resolve.
WebUrls ==
    {url \in [http : BOOLEAN, name : Seq(STRING), ip : Address \cup {<<>>}] :
        url.ip = <<>> => url.name \in HostNames}

ASSUME WebAssumption ==
    /\ {CacheTtl, CacheSize, MaxClock, MaxDnsChanges, MaxCurlFaults} \subseteq Nat
    /\ DnsAnswers \subseteq Seq(Address)
    /\ \A request \in WebRequests :
          request.tool \in {"request", "fetch", "search"} /\ request.url \in WebUrls
    /\ Responses \subseteq
          [marked : BOOLEAN, status : Nat, redirect : WebUrls \cup {NoUrl}, body : STRING]
    /\ ProviderUrls \in [{"searxng", "brave", "duckduckgo", "exa"} -> WebUrls]

VARIABLES
    webConfig,   \* config.http, config.web.search and the keys in the environment
    webCalls,    \* where each call stands
    dns,         \* what each name resolves to
    cache,       \* the entries of the search cache, oldest first
    clock,       \* the time
    answered,    \* what providers answered: provider, query, kind, when
    dnsChanges, curlFaults   \* what happened so far of what is bounded

webVars == <<webConfig, webCalls, dns, cache, clock, answered, dnsChanges, curlFaults>>

-----------------------------------------------------------------------------
(* The guard: web-fetch-ssrf-guard.ts.                                     *)

Range4(a, b, c, d, prefix) == [net |-> <<a, b, c, d>>, prefix |-> prefix]
Range6(a, b, h, prefix) == [net |-> <<a, b, 0, 0, 0, 0, 0, h>>, prefix |-> prefix]

BLOCKED_IPV4 ==
    {Range4(0, 0, 0, 0, 8), Range4(10, 0, 0, 0, 8), Range4(100, 64, 0, 0, 10),
     Range4(127, 0, 0, 0, 8), Range4(169, 254, 0, 0, 16), Range4(172, 16, 0, 0, 12),
     Range4(192, 0, 0, 0, 24), Range4(192, 0, 2, 0, 24), Range4(192, 168, 0, 0, 16),
     Range4(198, 18, 0, 0, 15), Range4(198, 51, 100, 0, 24), Range4(203, 0, 113, 0, 24),
     Range4(224, 0, 0, 0, 4), Range4(240, 0, 0, 0, 4)}

\* ::1, ::, fc00::/7, fe80::/10, ff00::/8 and 2001:db8::/32.
BLOCKED_IPV6 ==
    {Range6(0, 0, 1, 128), Range6(0, 0, 0, 128), Range6(64512, 0, 0, 7), Range6(65152, 0, 0, 10),
     Range6(65280, 0, 0, 8), Range6(8193, 3512, 0, 32)}

PowerOfTwo(n) ==
    <<1, 2, 4, 8, 16, 32, 64, 128, 256, 512, 1024, 2048, 4096, 8192, 16384, 32768, 65536>>[n + 1]

\* The masks, digit by digit: the first prefix bits of two addresses agree.
SamePrefix(ip, net, width, prefix) ==
    \A k \in DOMAIN net :
        LET kept == prefix - width * (k - 1)
            unit == PowerOfTwo(IF kept <= 0 THEN width ELSE IF kept >= width THEN 0 ELSE width - kept)
        IN  ip[k] \div unit = net[k] \div unit

IsBlockedIpv4(ip) ==
    Len(ip) = 4 /\ \E r \in BLOCKED_IPV4 : SamePrefix(ip, r.net, 8, r.prefix)

Embedded(ip) == <<ip[7] \div 256, ip[7] % 256, ip[8] \div 256, ip[8] % 256>>

IsBlockedIpv6(ip) ==
    /\ Len(ip) = 8
    /\ \/ SubSeq(ip, 1, 6) = <<0, 0, 0, 0, 0, 65535>> /\ IsBlockedIpv4(Embedded(ip))
       \/ \E r \in BLOCKED_IPV6 : SamePrefix(ip, r.net, 16, r.prefix)

IsBlockedIp(ip) == IsBlockedIpv4(ip) \/ IsBlockedIpv6(ip)

\* A literal resolves to itself, but is refused before it is looked up.
Lookup(url) == IF url.ip # <<>> THEN <<url.ip>> ELSE dns[url.name]

\* assertHostAllowed passes, with the first address as the pin.
HostIsAllowed(url) ==
    /\ ~IsBlockedIp(url.ip)
    /\ Lookup(url) # <<>>
    /\ \A i \in DOMAIN Lookup(url) : ~IsBlockedIp(Lookup(url)[i])

\* parseHttpUrl: a URL that does not parse or is of another scheme is refused.
ParsesAsHttp(url) == url.http

-----------------------------------------------------------------------------
(* The calls.  at: "idle", "asking" for an approval, "link" of the chain of *)
(* search providers, "resolve", "curl", "connected" or "ended".  reached:   *)
(* the address curl last connected to.  told: what became of the     *)
(* links so far, from which lastEmpty and firstError follow.                *)

NoCall == [at |-> "idle"]

Is(c, place) == webCalls[c].at = place
Becomes(c, call) == webCalls' = [webCalls EXCEPT ![c] = call]

NewCall(request, place, result) ==
    [at |-> place, request |-> request, url |-> request.url, method |-> request.method,
     body |-> request.body, hop |-> 0, pinned |-> <<>>, reached |-> <<>>, approved |-> FALSE,
     told |-> <<>>, result |-> result, ended |-> clock]

\* The end of a call, of which what is not spoken of any more is forgotten.
Ended(request, told, result) == [NewCall(request, "ended", result) EXCEPT !.told = told]
EndsAs(c, result) == Becomes(c, Ended(webCalls[c].request, webCalls[c].told, result))

Free(c) == Is(c, "idle") \/ Is(c, "ended")
OnlyCalls == UNCHANGED <<webConfig, dns, cache, clock, answered, dnsChanges, curlFaults>>

WebInit ==
    /\ webConfig \in WebConfigs
    /\ webCalls = [c \in WebCalls |-> NoCall]
    /\ dns \in [HostNames -> DnsAnswers]
    /\ cache = <<>>
    /\ clock = 0
    /\ answered = {}
    /\ dnsChanges = 0 /\ curlFaults = 0

-----------------------------------------------------------------------------
(* os.http.request and os.web.fetch                                        *)

\* parseArgs of os.http.request; valid stands for the headers.
HttpArgs(request) ==
    /\ ParsesAsHttp(request.url) /\ request.valid
    /\ request.method \in {"GET", "POST"}
    /\ request.body \in {"none", "text", "object"}
    /\ request.method = "GET" => request.body = "none"

\* hostAllowed: a rule is a host, or with a wildcard a domain and all below it.
HostAllowed(url) ==
    \/ ~webConfig.allowlisted
    \/ \E rule \in webConfig.allowlist :
          IF rule.wild THEN IsSuffix(rule.name, url.name) ELSE rule.name = url.name

NeedsApproval(method) ==
    \/ webConfig.approvalMode = "always"
    \/ webConfig.approvalMode = "writes" /\ method # "GET"

CallRequest(c, request) ==
    /\ Free(c) /\ request.tool = "request"
    /\ Becomes(c, IF ~webConfig.http \/ ~HttpArgs(request) \/ ~HostAllowed(request.url)
                  THEN NewCall(request, "ended", "thrown")
                  ELSE NewCall(request, IF NeedsApproval(request.method) THEN "asking" ELSE "resolve",
                               "none"))
    /\ OnlyCalls

OwnerAnswers(c, yes) ==
    /\ Is(c, "asking")
    /\ IF yes THEN Becomes(c, [webCalls[c] EXCEPT !.at = "resolve", !.approved = TRUE])
       ELSE EndsAs(c, "thrown")
    /\ OnlyCalls

CallFetch(c, request) ==
    /\ Free(c) /\ request.tool = "fetch"
    /\ Becomes(c, IF ~request.valid THEN NewCall(request, "ended", "thrown")
                  ELSE IF ~ParsesAsHttp(request.url) THEN NewCall(request, "ended", "error")
                  ELSE NewCall(request, "resolve", "none"))
    /\ OnlyCalls

\* A failure in the loop over the hops: the request tool lets some exceptions through, a
\* search goes on with the next link.
Fails(c, how) ==
    CASE webCalls[c].request.tool = "request" -> EndsAs(c, how)
      [] webCalls[c].request.tool = "fetch" -> EndsAs(c, "error")
      [] webCalls[c].request.tool = "search" ->
             Becomes(c, [webCalls[c] EXCEPT !.at = "link", !.told = Append(@, "failed")])

\* assertHostAllowed of the URL of this hop.
Resolve(c) ==
    /\ Is(c, "resolve")
    /\ IF HostIsAllowed(webCalls[c].url)
       THEN Becomes(c, [webCalls[c] EXCEPT !.at = "curl", !.pinned = Head(Lookup(webCalls[c].url))])
       ELSE Fails(c, "error")
    /\ OnlyCalls

REDIRECT_STATUSES == {301, 302, 303, 307, 308}
MaxRedirects(tool) == IF tool = "request" THEN 5 ELSE 3

\* parseCurlOutput, parseCurlMeta: without the marker there is no status and no redirect.
Parsed(response) ==
    IF response.marked THEN response ELSE [response EXCEPT !.status = 0, !.redirect = NoUrl]

Follows(call, answer) ==
    /\ answer.status \in REDIRECT_STATUSES /\ answer.redirect # NoUrl
    /\ call.request.tool = "request" => call.request.follow

\* The next hop: after 301, 302 and 303 a request goes on as a GET without a body.
NextHop(call, answer) ==
    LET demoted == call.request.tool = "request" /\ answer.status \in {301, 302, 303}
    IN  [call EXCEPT !.at = "resolve", !.url = answer.redirect, !.hop = @ + 1,
                     !.method = IF demoted THEN "GET" ELSE @,
                     !.body = IF demoted THEN "none" ELSE @]

\* Fault: curl resolves the name anew.
CurlUnpinned(c) ==
    LET call == webCalls[c]
    IN  /\ Is(c, "curl") /\ Lookup(call.url) # <<>>
        /\ Becomes(c, [call EXCEPT !.at = "connected", !.reached = Head(Lookup(call.url))])
        /\ OnlyCalls

\* curl connects, --resolve naming the pinned address.
Curl(c) ==
    /\ Is(c, "curl")
    /\ Becomes(c, [webCalls[c] EXCEPT !.at = "connected", !.reached = webCalls[c].pinned])
    /\ OnlyCalls

Redirected(c, response) ==
    LET call == webCalls[c]
        answer == Parsed(response)
    IN  /\ Is(c, "connected") /\ Follows(call, answer)
        /\ IF call.hop >= MaxRedirects(call.request.tool) THEN Fails(c, "thrown")
           ELSE IF ~ParsesAsHttp(answer.redirect) THEN Fails(c, "error")
           ELSE Becomes(c, NextHop(call, answer))
        /\ OnlyCalls

Returns(c, response) ==
    /\ Is(c, "connected") /\ webCalls[c].request.tool # "search"
    /\ ~Follows(webCalls[c], Parsed(response))
    /\ EndsAs(c, IF Parsed(response).status >= 400 THEN "error" ELSE "ok")
    /\ OnlyCalls

\* curl is missing, exits with an error, or its run rejects.
CurlFails(c, how) ==
    /\ Is(c, "curl") \/ Is(c, "connected")
    /\ curlFaults < MaxCurlFaults
    /\ curlFaults' = curlFaults + 1
    /\ Fails(c, how)
    /\ UNCHANGED <<webConfig, dns, cache, clock, answered, dnsChanges>>

-----------------------------------------------------------------------------
(* os.web.search.  A query stands for what the key of the cache makes of it.*)

\* buildProviderChain
Chain ==
    LET names == <<webConfig.provider>> \o webConfig.fallback
        first[i \in 0 .. Len(names)] ==
            IF i = 0 THEN <<>>
            ELSE IF Contains(first[i - 1], names[i]) THEN first[i - 1]
            ELSE Append(first[i - 1], names[i])
    IN  first[Len(names)]

Usable(name) ==
    \/ name = "searxng" /\ webConfig.instanceUrl
    \/ name = "brave" /\ webConfig.braveKey # "none"
    \/ name \in {"duckduckgo", "exa"}

Key(c, name) == [provider |-> name, query |-> webCalls[c].request.query]

\* Fault: an entry is good for one moment more.
CacheGetLate(key) ==
    {entry \in ToSet(cache) : entry.key = key /\ CacheTtl > 0 /\ entry.expiresAt >= clock}

\* get: the entry of the key that is still good, if there is one.
CacheGet(key) ==
    {entry \in ToSet(cache) : entry.key = key /\ CacheTtl > 0 /\ entry.expiresAt > clock}

\* delete: a key has one entry at most.
Without(key) ==
    IF \E i \in DOMAIN cache : cache[i].key = key
    THEN RemoveAt(cache, CHOOSE i \in DOMAIN cache : cache[i].key = key)
    ELSE cache

\* set: the entry is the youngest now, and the oldest go where there are too many.
CacheSet(key, found) ==
    LET stored == Append(Without(key), [key |-> key, found |-> found, expiresAt |-> clock + CacheTtl])
        surplus == Len(stored) - CacheSize
    IN  IF CacheTtl = 0 THEN cache
        ELSE SubSeq(stored, IF surplus > 0 THEN surplus + 1 ELSE 1, Len(stored))

CallSearch(c, request) ==
    /\ Free(c) /\ request.tool = "search"
    /\ Becomes(c, IF ~webConfig.search THEN NewCall(request, "ended", "error")
                  ELSE IF ~request.valid THEN NewCall(request, "ended", "thrown")
                  ELSE NewCall(request, "link", "none"))
    /\ OnlyCalls

NextName(c) == Chain[Len(webCalls[c].told) + 1]
AtLink(c) == Is(c, "link") /\ Len(webCalls[c].told) < Len(Chain)
Tells(c, outcome) ==
    Becomes(c, [webCalls[c] EXCEPT !.at = "link", !.told = Append(@, outcome)])
Finds(c, how) == Becomes(c, Ended(webCalls[c].request, Append(webCalls[c].told, how), "found"))

SkipLink(c) ==
    /\ AtLink(c) /\ ~Usable(NextName(c))
    /\ Tells(c, "unusable")
    /\ OnlyCalls

\* The cache has the answer.
CacheHit(c) ==
    /\ AtLink(c) /\ Usable(NextName(c))
    /\ \E hit \in CacheGet(Key(c, NextName(c))) :
          IF hit.found THEN Finds(c, "cached") ELSE Tells(c, "empty")
    /\ OnlyCalls

\* What the cache has of it is stale and goes; a provider without its key throws.
AskProvider(c) ==
    LET name == NextName(c)
        asking == [webCalls[c] EXCEPT !.at = "resolve", !.url = ProviderUrls[name], !.hop = 0,
                         !.method = IF name = "exa" THEN "POST" ELSE "GET",
                         !.body = IF name = "exa" THEN "text" ELSE "none"]
    IN  /\ AtLink(c) /\ Usable(name) /\ CacheGet(Key(c, name)) = {}
        /\ cache' = IF CacheTtl = 0 THEN cache ELSE Without(Key(c, name))
        /\ IF name = "brave" /\ webConfig.braveKey = "blank" THEN Tells(c, "failed")
           ELSE Becomes(c, asking)
        /\ UNCHANGED <<webConfig, dns, clock, answered, dnsChanges, curlFaults>>

\* What the providers make of an answer: Exa without a key speaks JSON-RPC and throws at
\* its errors, DuckDuckGo reads a page and throws at a challenge, the others read JSON.
Outcome(name, answer) ==
    CASE answer.status >= 400 -> "failed"
      [] answer.body = "results" -> "found"
      [] answer.body = "challenge" -> "failed"
      [] answer.body = "page" -> IF name = "duckduckgo" THEN "empty" ELSE "failed"
      [] answer.body = "refusal" -> IF name = "exa" /\ ~webConfig.exaKey THEN "failed" ELSE "empty"
      [] OTHER -> "empty"

ProviderAnswers(c, response) ==
    LET name == NextName(c)
        outcome == Outcome(name, Parsed(response))
    IN  /\ Is(c, "connected") /\ webCalls[c].request.tool = "search"
        /\ ~Follows(webCalls[c], Parsed(response))
        /\ IF outcome = "found" THEN Finds(c, "found") ELSE Tells(c, outcome)
        /\ IF outcome = "failed" THEN UNCHANGED <<cache, answered>>
           ELSE /\ cache' = CacheSet(Key(c, name), outcome = "found")
                /\ answered' = answered \cup
                       {[key |-> Key(c, name), found |-> outcome = "found", at |-> clock]}
        /\ UNCHANGED <<webConfig, dns, clock, dnsChanges, curlFaults>>

\* The end of the chain: an empty answer, from whichever link, before the first error.
ChainEnds(c) ==
    /\ Is(c, "link") /\ Len(webCalls[c].told) = Len(Chain)
    /\ EndsAs(c, IF Contains(webCalls[c].told, "empty") THEN "empty" ELSE "error")
    /\ OnlyCalls

-----------------------------------------------------------------------------
(* The world around.                                                       *)

TimePasses ==
    /\ clock < MaxClock
    /\ clock' = clock + 1
    /\ UNCHANGED <<webConfig, webCalls, dns, cache, answered, dnsChanges, curlFaults>>

DnsChanges(name, answer) ==
    /\ dnsChanges < MaxDnsChanges /\ dns[name] # answer
    /\ dns' = [dns EXCEPT ![name] = answer]
    /\ dnsChanges' = dnsChanges + 1
    /\ UNCHANGED <<webConfig, webCalls, cache, clock, answered, curlFaults>>

WebNext ==
    \/ \E c \in WebCalls :
        \/ \E request \in WebRequests :
              CallRequest(c, request) \/ CallFetch(c, request) \/ CallSearch(c, request)
        \/ \E yes \in BOOLEAN : OwnerAnswers(c, yes)
        \/ Resolve(c) \/ Curl(c)
        \/ \E response \in Responses :
              Redirected(c, response) \/ Returns(c, response) \/ ProviderAnswers(c, response)
        \/ \E how \in {"error", "thrown"} : CurlFails(c, how)
        \/ SkipLink(c) \/ CacheHit(c) \/ AskProvider(c) \/ ChainEnds(c)
    \/ TimePasses
    \/ \E name \in HostNames, answer \in DnsAnswers : DnsChanges(name, answer)

WebSpec == WebInit /\ [][WebNext]_webVars

-----------------------------------------------------------------------------
(* Properties                                                              *)

\* The private, internal and reserved addresses, as the intervals their blocks are.
Private4(a, b, c) ==
    \/ a \in {0, 10, 127} \/ a >= 224
    \/ a = 100 /\ b \in 64 .. 127
    \/ a = 169 /\ b = 254
    \/ a = 172 /\ b \in 16 .. 31
    \/ a = 192 /\ (b = 168 \/ (b = 0 /\ c \in {0, 2}))
    \/ a = 198 /\ (b \in 18 .. 19 \/ (b = 51 /\ c = 100))
    \/ a = 203 /\ b = 0 /\ c = 113

Private(ip) ==
    IF Len(ip) = 4 THEN Private4(ip[1], ip[2], ip[3])
    ELSE \/ ip[1] \in 64512 .. 65023 \/ ip[1] \in 65152 .. 65215 \/ ip[1] >= 65280
         \/ ip[1] = 8193 /\ ip[2] = 3512
         \/ SubSeq(ip, 1, 7) = <<0, 0, 0, 0, 0, 0, 0>> /\ ip[8] <= 1
         \/ /\ SubSeq(ip, 1, 6) = <<0, 0, 0, 0, 0, 65535>>
            /\ Private4(ip[7] \div 256, ip[7] % 256, ip[8] \div 256)

\* No hop of any web tool connects to a private address, whatever the DNS answers when and
\* wherever a redirect points; a request the configuration wants approved was approved
\* before its first hop, and what is not a GET is a POST that was asked for and that no
\* 301, 302 or 303 has turned into a GET (http-request.ts, web-fetch-ssrf-guard.ts).
HopsAreGuarded ==
    \A c \in WebCalls : webCalls[c] # NoCall /\ webCalls[c].reached # <<>> =>
        LET call == webCalls[c]
        IN  /\ ~Private(call.reached)
            /\ call.request.tool = "request" =>
                  /\ NeedsApproval(call.request.method) => call.approved
                  /\ HostAllowed(call.request.url)
                  /\ call.method \in {"GET", call.request.method}
                  /\ call.body = IF call.method = call.request.method THEN call.request.body
                                 ELSE "none"

\* What a search returns is what a usable provider of its chain answered to that query:
\* results that were fresh or less than CacheTtl old, and "No search results." only
\* where some provider did answer, with nothing (search-orchestrator.ts, search-cache.ts).
SearchHonest ==
    \A c \in WebCalls : webCalls[c] # NoCall /\ webCalls[c].request.tool = "search" =>
        LET call == webCalls[c]
            Backed(link, found) ==
                \E a \in answered :
                    /\ a.key = Key(c, Chain[link]) /\ a.found = found /\ Usable(Chain[link])
                    /\ a.at <= call.ended
                    /\ found => a.at = call.ended \/ call.ended < a.at + CacheTtl
        IN  /\ call.result = "found" => Backed(Len(call.told), TRUE)
            /\ call.result = "empty" => \E link \in DOMAIN call.told : Backed(link, FALSE)
            /\ call.result = "error" =>
                  \A link \in DOMAIN call.told : call.told[link] \in {"failed", "unusable"}
=============================================================================
