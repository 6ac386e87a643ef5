------------------------------ MODULE WebFetch ------------------------------
(***************************************************************************)
(* The web_fetch tool: an address is normalised, its page is taken from    *)
(* the cache that all calls share or fetched hop by hop, pages that came   *)
(* without a redirect are cached, and a light model answers the prompt     *)
(* from the page.  The tool may run in parallel with itself.  Which hosts  *)
(* may be asked at all is ToolPermission's subject.                        *)
(***************************************************************************)
EXTENDS Naturals, FiniteSets, Sequences, SequencesExt

CONSTANTS
  WebCalls,     \* the calls of the tool
  RawUrls,      \* the addresses that the model may write
  Normal,       \* address -> its normal form, for those with scheme http or https;
                \* all are of one host
  PageSizes,    \* sizes of a page in the cache (0: an empty body)
  CacheMax,     \* web.fetch_cache_max_bytes
  Ttl,          \* web.fetch_cache_ttl
  MaxFollowed,  \* 10 in the code
  MaxClock      \* bound: ticks of the clock

ASSUME WebAssumption ==
  /\ CacheMax \in Nat /\ Ttl \in Nat /\ MaxFollowed \in Nat \ {0} /\ MaxClock \in Nat
  /\ PageSizes \subseteq Nat /\ DOMAIN Normal \subseteq RawUrls

Urls == {Normal[r] : r \in DOMAIN Normal}

VARIABLES
  clock,
  lru,         \* the cached pages, the last used first: [key, size, from, put]
  totalBytes,  \* what the cache counts of them
  web,         \* the calls: [at, key, current, hops, redirected, page]
  crashed      \* the process died of a panic
wfVars == <<clock, lru, totalBytes, web, crashed>>

NoPage == [from |-> "none", size |-> 0]
Waiting0 == [at |-> "free", key |-> "none", current |-> "none", hops |-> 0,
             redirected |-> FALSE, page |-> NoPage]
WfInit ==
  /\ clock = 0 /\ lru = <<>> /\ totalBytes = 0 /\ crashed = FALSE
  /\ web = [c \in WebCalls |-> Waiting0]

-----------------------------------------------------------------------------
(* The cache.                                                              *)

Key(i) == lru[i].key
Slot(key) == {i \in DOMAIN lru : Key(i) = key}
Without(key) == IF Slot(key) = {} THEN lru ELSE RemoveAt(lru, CHOOSE i \in Slot(key) : TRUE)
HeldOf(key) == IF Slot(key) = {} THEN 0 ELSE lru[CHOOSE i \in Slot(key) : TRUE].size

\* The size of each beginning of the list, and of all of it.
SizesUpTo(s) == LET sum[n \in 0..Len(s)] == IF n = 0 THEN 0 ELSE sum[n - 1] + s[n].size IN sum
SizeOf(s) == SizesUpTo(s)[Len(s)]

\* While the count is over the limit the entry at the back is removed: the longest
\* beginning stays with which it is not.
Evicted(s, k) == SizeOf(s) - SizesUpTo(s)[k]
Evict(s, total) ==
  SubSeq(s, 1, Max({0} \cup {k \in 1..Len(s) : total - Evicted(s, k) <= CacheMax}))

\* Mutant: the size of the entry that is replaced stays counted.
ReplacedNot(key) == 0
Replaced(key) == HeldOf(key)

Put(key, page) ==
  IF page.size = 0 THEN UNCHANGED <<lru, totalBytes>>
  ELSE IF page.size > CacheMax
    THEN lru' = Without(key) /\ totalBytes' = totalBytes - Replaced(key)
  ELSE LET fresh == [key |-> key, size |-> page.size, from |-> page.from, put |-> clock]
           all == <<fresh>> \o Without(key)
           total == totalBytes - Replaced(key) + page.size
       IN /\ lru' = Evict(all, total)
          /\ totalBytes' = total - (SizeOf(all) - SizeOf(Evict(all, total)))

Expired(e) == clock > e.put + Ttl

-----------------------------------------------------------------------------
(* A call.                                                                 *)

Ended == {"free", "answered", "failed", "redirected"}
FetchOver(c) == web[c].at \in Ended
EndsWith(c, how) == web' = [web EXCEPT ![c] = [Waiting0 EXCEPT !.at = how]]

\* normalizeURL gives nothing, and no error either, for an address whose scheme is not
\* http or https; the key of nothing is then asked for.
ExecuteFetch(c) ==
  /\ FetchOver(c)
  /\ \E raw \in RawUrls :
       IF raw \in DOMAIN Normal
       THEN /\ web' = [web EXCEPT ![c] = [Waiting0 EXCEPT !.at = "lookup", !.key = Normal[raw],
                                                          !.current = Normal[raw]]]
            /\ UNCHANGED crashed
       ELSE crashed' = TRUE /\ UNCHANGED web
  /\ UNCHANGED <<clock, lru, totalBytes>>

\* An expired entry is removed; a hit moves its entry to the front.
CacheGet(c) ==
  /\ web[c].at = "lookup"
  /\ LET key == web[c].key
         hits == {i \in Slot(key) : ~Expired(lru[i])}
     IN IF hits = {}
        THEN /\ lru' = Without(key) /\ totalBytes' = totalBytes - HeldOf(key)
             /\ web' = [web EXCEPT ![c].at = "fetch"]
        ELSE LET e == lru[CHOOSE i \in hits : TRUE] IN
             /\ lru' = <<e>> \o Without(key) /\ UNCHANGED totalBytes
             /\ web' = [web EXCEPT ![c].at = "analyze",
                          ![c].page = [NoPage EXCEPT !.from = e.from]]
  /\ UNCHANGED <<clock, crashed>>

FetchFails(c) == EndsWith(c, "failed")
Hops(c) == web[c].hops + 1
TooMany(c) == Hops(c) = MaxFollowed

\* A hop: the host is refused or does not answer; it sends the page; it redirects to
\* nowhere, to another host, which is only reported, or within the host, which is followed.
FetchHop(c) ==
  /\ web[c].at = "fetch"
  /\ \/ FetchFails(c)
     \/ \E size \in PageSizes :
          web' = [web EXCEPT ![c].at = "store",
                    ![c].page = [from |-> web[c].current, size |-> size]]
     \/ EndsWith(c, "redirected")
     \/ \E next \in Urls :
          IF TooMany(c) THEN FetchFails(c)
          ELSE web' = [web EXCEPT ![c].hops = Hops(c), ![c].current = next,
                                  ![c].redirected = TRUE]
  /\ UNCHANGED <<clock, lru, totalBytes, crashed>>

Store(c) ==
  /\ web[c].at = "store" /\ web' = [web EXCEPT ![c].at = "analyze", ![c].page.size = 0]
  /\ IF web[c].redirected THEN UNCHANGED <<lru, totalBytes>> ELSE Put(web[c].key, web[c].page)
  /\ UNCHANGED <<clock, crashed>>

\* The light model answers from the page, or its request fails.
AnalyzePage(c) ==
  /\ web[c].at = "analyze"
  /\ FetchFails(c) \/ EndsWith(c, "answered")
  /\ UNCHANGED <<clock, lru, totalBytes, crashed>>

Tick == clock < MaxClock /\ clock' = clock + 1 /\ UNCHANGED <<lru, totalBytes, web, crashed>>

WfNext ==
  /\ ~crashed
  /\ \/ Tick
     \/ \E c \in WebCalls :
          ExecuteFetch(c) \/ CacheGet(c) \/ FetchHop(c) \/ Store(c) \/ AnalyzePage(c)

WfSpec == WfInit /\ [][WfNext]_wfVars

-----------------------------------------------------------------------------
(* Properties.                                                             *)

\* The state has the shape that the code keeps.
WfTypeOK ==
  /\ clock \in 0..MaxClock /\ totalBytes \in Nat /\ crashed \in BOOLEAN
  /\ \A c \in WebCalls :
       /\ web[c].at \in Ended \cup {"lookup", "fetch", "store", "analyze"}
       /\ web[c].hops \in 0..(MaxFollowed - 1)

\* The cache's count is the size of what it holds, within the limit, one entry for an
\* address: however the gets and puts of parallel calls interleave, nothing leaks.
CacheCounts ==
  /\ totalBytes = SizeOf(lru) /\ totalBytes <= CacheMax
  /\ \A i, j \in DOMAIN lru : Key(i) = Key(j) => i = j

\* A page is answered for the address it was asked for: without a redirect it came from
\* that very address, from the cache too.
PageIsAsked ==
  \A c \in WebCalls : (web[c].at = "analyze" /\ ~web[c].redirected) =>
    web[c].page.from = web[c].key

\* A page that a call takes from the cache was put there at most the time-to-live ago.
FreshServed ==
  \A c \in WebCalls : (web[c].at = "lookup" /\ web'[c].at = "analyze") =>
    \E i \in Slot(web[c].key) : clock <= lru[i].put + Ttl

\* A page that fits is in the cache after it was put there: making room never costs the
\* page for which room is made.
PutStays ==
  \A c \in WebCalls :
    (web[c].at = "store" /\ web'[c].at = "analyze" /\ ~web[c].redirected
     /\ web[c].page.size \in 1..CacheMax) =>
    \E i \in DOMAIN lru' : lru'[i].key = web[c].key /\ lru'[i].put = clock

\* The cache at every moment of every call: its types, its count, and the right page.
CacheInv == WfTypeOK /\ CacheCounts /\ PageIsAsked
=============================================================================
