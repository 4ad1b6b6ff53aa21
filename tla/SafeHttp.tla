------------------------------- MODULE SafeHttp -------------------------------
(* SafeHttpClient as the site crawler uses it: every hop of a fetch is        *)
(* validated, a page's hop waits for the robots.txt of its host, which is     *)
(* fetched by the same client in the middle of it, and each request is paced  *)
(* and retried.  The server may answer anything.                              *)
EXTENDS Integers, Sequences, SequencesExt

CONSTANTS
  Hosts,             \* hosts that occur in links and redirects
  Paths,             \* content paths
  AllowedHosts, AllowedPaths,
  MaxRetries, RequestDelay, MaxRetryAfter,
  MaxRedirects,
  RetryAfters,       \* seconds a server may ask to wait
  MaxVisits,         \* pages visited in one behaviour
  None

ASSUME PolicyAssumption == AllowedHosts \subseteq Hosts /\ AllowedPaths \subseteq Paths
ASSUME RetryAssumption ==
  {MaxRetries, RequestDelay, MaxRetryAfter, MaxRedirects} \cup RetryAfters \subseteq Nat
\* Arithmetic that the proof backends do not know.
ASSUME PowerAssumption == \A n \in 0 .. MaxRetries : 2 ^ n \in Nat

VARIABLES
  robots,     \* host -> paths its robots.txt allows, None before it is known
  fetches,    \* the fetch in progress, the robots fetch it waits for last
  made,       \* _made_request
  sent,       \* the last request and the pause before it
  ended,      \* how the last hop ended
  visits

httpVars == << robots, fetches, made, sent, ended, visits >>

Robots == "robots.txt"
Address(host, path) == [host |-> host, path |-> path]
Urls == {Address(h, p) : h \in Hosts, p \in Paths \cup {Robots}}
Fetch(kind, url) ==
  [kind |-> kind, url |-> url, redirects |-> 0, attempt |-> 0, delay |-> 0,
   asked |-> None, pc |-> "check"]

HttpInit ==
  /\ robots = [h \in Hosts |-> None]
  /\ fetches = << >>
  /\ made = FALSE
  /\ sent = None /\ ended = None
  /\ visits = 0

Top == Last(fetches)
Continue(fetch) == fetches' = Append(Front(fetches), fetch)

\* The crawler turns to a page; its links name allowed hosts.
Visit(url) ==
  /\ fetches = << >> /\ visits < MaxVisits
  /\ url.host \in AllowedHosts /\ url.path \in Paths
  /\ visits' = visits + 1
  /\ fetches' = << Fetch("page", url) >>
  /\ UNCHANGED << robots, made, sent, ended >>

-----------------------------------------------------------------------------
\* target_validator looks at the host, the crawler's hook at the path too.
HostAllowed(url) == url.host \in AllowedHosts
PathAllowed(url) == url.path \in AllowedPaths

HasHook_firstHop(fetch) == fetch.kind = "page" /\ fetch.redirects = 0
\* The crawler gives its pages a hook, and none to the robots fetch.
HasHook(fetch) == fetch.kind = "page"

\* An exception that nobody expects: the page has failed.
PageFails == fetches' = << >>

\* What comes before the requests of a hop.
Check ==
  /\ fetches # << >> /\ Top.pc = "check"
  /\ LET url == Top.url IN
       IF ~HostAllowed(url) THEN PageFails
       ELSE IF ~HasHook(Top) THEN Continue([Top EXCEPT !.pc = "send"])
       ELSE IF ~PathAllowed(url) THEN PageFails
       ELSE IF robots[url.host] = None
            THEN fetches' = Append(fetches, Fetch("robots", Address(url.host, Robots)))
       ELSE IF url.path \in robots[url.host] THEN Continue([Top EXCEPT !.pc = "send"])
       ELSE PageFails
  /\ UNCHANGED << robots, made, sent, ended, visits >>

-----------------------------------------------------------------------------
\* A malformed Retry-After counts as none; a date in the past asks for nothing.
RetryDelay(retryAfter, attempt) ==
  Min({MaxRetryAfter, IF retryAfter # None THEN retryAfter ELSE 2 ^ attempt})

Pause_retriesOnly(fetch) == IF fetch.attempt > 0 THEN fetch.delay ELSE 0
Pause(fetch) == IF made THEN Max({RequestDelay, fetch.delay}) ELSE 0

Sends ==
  /\ fetches # << >> /\ Top.pc = "send"
  /\ made' = TRUE
  /\ sent' = [kind |-> Top.kind, url |-> Top.url, pause |-> Pause(Top), first |-> ~made,
              attempt |-> Top.attempt, asked |-> Top.asked]

EndHop(how) == ended' = [how |-> how, attempts |-> Top.attempt + 1]

\* The fetch raises: without its robots.txt the page fails as well.
Raises(how) == EndHop(how) /\ PageFails /\ UNCHANGED robots

LastAttempt == Top.attempt = MaxRetries

\* A network failure keeps the delay an earlier answer asked for.
NetworkFails ==
  /\ Sends
  /\ IF LastAttempt THEN Raises("network")
     ELSE /\ Continue([Top EXCEPT !.attempt = @ + 1, !.asked = None])
          /\ UNCHANGED << robots, ended >>
  /\ UNCHANGED visits

ResponseTooLarge == Sends /\ Raises("large") /\ UNCHANGED visits

\* What the crawler makes of the answer to the fetch it started last: robots.txt
\* is remembered for the host it was asked of, a page is done.
Answered(how, allowed) ==
  /\ EndHop(how)
  /\ robots' = IF Top.kind = "robots" THEN [robots EXCEPT ![fetches[1].url.host] = allowed]
               ELSE robots
  /\ fetches' = Front(fetches)

\* 429 and 5xx.
TransientAnswer(retryAfter) ==
  /\ Sends
  /\ IF LastAttempt THEN Answered("transient", {})
     ELSE /\ Continue([Top EXCEPT !.attempt = @ + 1, !.asked = retryAfter,
                                  !.delay = RetryDelay(retryAfter, Top.attempt)])
          /\ UNCHANGED << robots, ended >>
  /\ UNCHANGED visits

\* 200 comes with rules, 404 allows everything, all else nothing.
FinalAnswer(status, rules) ==
  /\ Sends
  /\ Answered("final", CASE status = 200 -> rules [] status = 404 -> Paths [] status = 403 -> {})
  /\ UNCHANGED visits

\* A redirect starts the next hop, unless it is one too many or leads nowhere.
Redirect(location) ==
  /\ Sends
  /\ IF location = None \/ Top.redirects = MaxRedirects THEN Raises("redirect")
     ELSE /\ EndHop("redirect")
          /\ Continue([Fetch(Top.kind, location) EXCEPT !.redirects = Top.redirects + 1])
          /\ UNCHANGED robots
  /\ UNCHANGED visits

HttpNext ==
  \/ \E url \in Urls : Visit(url)
  \/ Check
  \/ NetworkFails \/ ResponseTooLarge
  \/ \E retryAfter \in RetryAfters \cup {None} : TransientAnswer(retryAfter)
  \/ \E status \in {200, 403, 404}, rules \in SUBSET Paths : FinalAnswer(status, rules)
  \/ \E location \in Urls \cup {None} : Redirect(location)
HttpSpec == HttpInit /\ [][HttpNext]_httpVars

-----------------------------------------------------------------------------
\* No request leaves the allowed hosts; and a page is requested, at the end of
\* whatever redirects, only inside the allowed paths and where the robots.txt
\* of that very host is known and allows it (crawling/http.py:73-75,
\* skatteetaten.py:204-232).
RequestsAreAllowed ==
  sent # None =>
    /\ HostAllowed(sent.url)
    /\ sent.kind = "page" =>
         /\ PathAllowed(sent.url)
         /\ robots[sent.url.host] # None /\ sent.url.path \in robots[sent.url.host]

\* Between two requests, whichever fetches they belong to, the delay is kept; a
\* retry also waits as long as the answer before it asked, up to the limit; and
\* a temporary failure is final only when every attempt was used
\* (http.py:88-111).
RetriesAreDue ==
  /\ sent # None =>
       /\ sent.first \/ sent.pause >= RequestDelay
       /\ sent.pause <= Max({RequestDelay, MaxRetryAfter})
       /\ sent.asked # None => sent.pause >= Min({sent.asked, MaxRetryAfter})
  /\ (ended # None /\ ended.how \in {"network", "transient"}) => ended.attempts = MaxRetries + 1

=============================================================================
