----------------------------- MODULE Providers -----------------------------
(***************************************************************************)
(* The provider table of MCFCore::Misc::ProviderManager                    *)
(* (mcfcore/code/ProviderManager.cpp) on top of the list of download       *)
(* servers kept by UserCore's MCFDownloadProviders.  Each operator below   *)
(* is one critical section of m_WaitMutex; the callers, which may          *)
(* interleave between two sections, are in ProviderManager and WebGet.     *)
(*                                                                         *)
(* Abstractions.  A provider is its url.  The servers are offered, and     *)
(* appended to m_vProviderList, in the same order and an expired one never *)
(* comes back (a fresh link has a fresh token, hence another url), so      *)
(* m_vProviderList is kept as the set `listed', ordered by `arrived'.      *)
(* m_uiErrCount only stretches a timeout; here a timeout may end at any    *)
(* moment, so the counter is left out.                                     *)
(***************************************************************************)
EXTENDS Naturals, Sequences, FiniteSets

CONSTANTS
  Urls,        \* every provider the web service may ever name
  Ids,         \* the agents (worker ids) that ask for a provider
  NoUrl,       \* getUrl's nullptr
  NoId,        \* m_iOwner == -1
  FirstUrls,   \* the first answer of the web service, in order of preference
  CdnUrls      \* the providers whose link carries an expiry time

ASSUME ProvidersAssumption ==
  /\ NoUrl \notin Urls
  /\ NoId \notin Ids
  /\ CdnUrls \subseteq Urls
  /\ FirstUrls \in Seq(Urls)
  /\ \A i, j \in DOMAIN FirstUrls : FirstUrls[i] = FirstUrls[j] => i = j

VARIABLES
  arrived,     \* every provider the web service has named so far, in order
  listed,      \* the entries of m_vProviderList
  owner,       \* ProviderInfo::m_iOwner of each entry
  inTimeOut,   \* the entries whose m_tExpTime is still to come
  expired      \* the providers whose link has expired

provVars == <<arrived, listed, owner, inTimeOut, expired>>

ProvidersTypeOK ==
  /\ arrived \in Seq(Urls)
  /\ listed \subseteq Urls
  /\ owner \in [Urls -> Ids \union {NoId}]
  /\ inTimeOut \subseteq Urls
  /\ expired \subseteq Urls

ProvidersInit ==
  /\ arrived = FirstUrls
  /\ listed = {}
  /\ owner = [u \in Urls |-> NoId]
  /\ inTimeOut = {}
  /\ expired = {}

----------------------------------------------------------------------------
\* MCFDownloadProviders: the providers it holds once the expired are purged,
\* and what a call of getDownloadProviders may find.  The web service is asked
\* again only when there are fewer than m_nFirstCount, and names at most one
\* new provider per answer (a bound of the model).

Offered(list) == {list[i] : i \in DOMAIN list} \ expired

FetchPossible == Cardinality(Offered(arrived)) < Len(FirstUrls)

\* A slip: the search for the provider in the list always fails.
FetchedTwice == {arrived} \union {Append(arrived, u) : u \in {v \in Urls : FetchPossible}}

Fetched ==
  {arrived} \union
  {Append(arrived, u) : u \in {v \in Urls : /\ FetchPossible
                                            /\ \A i \in DOMAIN arrived : arrived[i] # v}}

----------------------------------------------------------------------------
\* "always take from the top of the list as they are preferred servers"
FirstAny(S, list) == S     \* a slip: any server, not the preferred one

First(S, list) ==
  {u \in S : \E i \in DOMAIN list : /\ list[i] = u
                                    /\ \A j \in 1..(i - 1) : list[j] \notin S}

\* cleanExpiredProviders: entries of expired providers go, and their owners and
\* timeouts with them.
Cleaned == listed \ expired

CleanedOwnerKeeps == owner        \* a slip: an expired entry keeps its owner

CleanedOwner == [u \in Urls |-> IF u \in expired THEN NoId ELSE owner[u]]

OwnedBy(id) == {u \in Cleaned : owner[u] = id}

\* Slips: the owner, or the timeout, is not looked at.
FreeIgnoringOwner(l) == {u \in l : u \notin inTimeOut}
FreeIgnoringTimeOut(l) == {u \in l : owner[u] = NoId}

\* getValidFreeProviders over the entries l
Free(l) == {u \in l : u \notin inTimeOut /\ owner[u] = NoId}

\* A slip: the web service is not asked when none is free.
GetUrlWithoutRefill(id, r) ==
  /\ inTimeOut' = inTimeOut \ expired
  /\ listed' = Cleaned
  /\ UNCHANGED <<expired, arrived>>
  /\ \/ /\ r \in First(OwnedBy(id), arrived)
        /\ owner' = CleanedOwner
     \/ /\ OwnedBy(id) = {}
        /\ r \in First(Free(Cleaned), arrived)
        /\ owner' = [CleanedOwner EXCEPT ![r] = id]
     \/ /\ OwnedBy(id) = {}
        /\ Free(Cleaned) = {}
        /\ r = NoUrl
        /\ owner' = CleanedOwner

\* getUrl(id) returns r.
GetUrl(id, r) ==
  /\ inTimeOut' = inTimeOut \ expired
  /\ UNCHANGED expired
  /\ \/ /\ r \in First(OwnedBy(id), arrived)
        /\ listed' = Cleaned
        /\ owner' = CleanedOwner
        /\ UNCHANGED arrived
     \/ /\ OwnedBy(id) = {}
        /\ r \in First(Free(Cleaned), arrived)
        /\ listed' = Cleaned
        /\ owner' = [CleanedOwner EXCEPT ![r] = id]
        /\ UNCHANGED arrived
     \/ /\ OwnedBy(id) = {}
        /\ Free(Cleaned) = {}
        /\ arrived' \in Fetched
        /\ listed' = Cleaned \union Offered(arrived')
        /\ \/ /\ r \in First(Free(listed'), arrived')
              /\ owner' = [CleanedOwner EXCEPT ![r] = id]
           \/ /\ Free(listed') = {}
              /\ r = NoUrl
              /\ owner' = CleanedOwner

\* getUrl(id) lets the exception of a failed web request through.
GetUrlThrows(id) ==
  /\ OwnedBy(id) = {}
  /\ Free(Cleaned) = {}
  /\ FetchPossible
  /\ listed' = Cleaned
  /\ owner' = CleanedOwner
  /\ inTimeOut' = inTimeOut \ expired
  /\ UNCHANGED <<arrived, expired>>

\* removeAgent(id, setTimeOut)
RemoveAgent(id, setTimeOut) ==
  /\ \/ \E u \in First({v \in listed : owner[v] = id}, arrived) :
           /\ owner' = [owner EXCEPT ![u] = NoId]
           /\ inTimeOut' = IF setTimeOut THEN inTimeOut \union {u} ELSE inTimeOut
     \/ /\ \A v \in listed : owner[v] # id
        /\ UNCHANGED <<owner, inTimeOut>>
  /\ UNCHANGED <<arrived, listed, expired>>

\* hasValidAgents() returns res: it looks at the timeouts only, so an expired
\* or an owned provider counts.
HasValidAgents(res) ==
  /\ \/ /\ listed = {}
        /\ arrived' \in Fetched
        /\ listed' = Offered(arrived')
     \/ /\ listed # {}
        /\ UNCHANGED <<arrived, listed>>
  /\ res = (\E u \in listed' : u \notin inTimeOut)
  /\ UNCHANGED <<owner, inTimeOut, expired>>

----------------------------------------------------------------------------
\* Time passes: a timeout ends, a link expires.
TimeOutEnds(u) ==
  /\ u \in inTimeOut
  /\ inTimeOut' = inTimeOut \ {u}
  /\ UNCHANGED <<arrived, listed, owner, expired>>

Expire(u) ==
  /\ u \in (CdnUrls \intersect Offered(arrived))
  /\ expired' = expired \union {u}
  /\ UNCHANGED <<arrived, listed, owner, inTimeOut>>

----------------------------------------------------------------------------
\* No agent ever owns two entries: getUrl gives an agent back the entry it
\* owns before it looks for a free one (ProviderManager.cpp:157-161).
OneProviderPerAgent ==
  \A u, v \in Urls : (owner[u] = owner[v] /\ owner[u] # NoId) => u = v

\* An entry in timeout has no owner, so a provider that has just failed is in
\* nobody's hands (setTimeOut resets the owner, getUrl skips timeouts).
TimedOutUnowned == \A u \in inTimeOut : owner[u] = NoId

\* What these two rest on: the owners are entries of the list, which holds
\* providers that were named, each named once; and a list that was filled
\* holds every provider on offer.
OwnedAreListed == \A u \in Urls : owner[u] # NoId => u \in listed
NamedOnce == \A i, j \in DOMAIN arrived : arrived[i] = arrived[j] => i = j
ListedWereNamed == \A u \in listed : \E i \in DOMAIN arrived : arrived[i] = u
FilledWithOffer == listed # {} => Offered(arrived) \subseteq listed

TableInv ==
  /\ ProvidersTypeOK
  /\ OneProviderPerAgent
  /\ TimedOutUnowned
  /\ OwnedAreListed
  /\ NamedOnce
  /\ ListedWereNamed
  /\ FilledWithOffer
=============================================================================
