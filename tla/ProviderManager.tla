-------------------------- MODULE ProviderManager --------------------------
(***************************************************************************)
(* The agents (WGTWorker threads) and the controller calling one           *)
(* ProviderManager concurrently.  `got' is each worker's                   *)
(* m_DownloadProvider: the copy it goes on using after the lock is         *)
(* released, while other agents clean, take and time out the entries.      *)
(* requestNewUrl is two critical sections (removeAgent, getUrl), between   *)
(* which any other call may run.                                           *)
(***************************************************************************)
EXTENDS Providers

VARIABLES
  call,     \* "renew" between the two sections of requestNewUrl, else "idle"
  got       \* what the last call returned to the agent

vars == <<arrived, listed, owner, inTimeOut, expired, call, got>>

\* Every variable has its type, and a provider is in the list once, however
\* often the web service names it (processXml, initProviderList).
TypeOK ==
  /\ ProvidersTypeOK
  /\ NamedOnce
  /\ call \in [Ids -> {"idle", "renew"}]
  /\ got \in [Ids -> Urls \union {NoUrl}]

Init ==
  /\ ProvidersInit
  /\ call = [id \in Ids |-> "idle"]
  /\ got = [id \in Ids |-> NoUrl]

\* WGTWorker::run and doDownload ask when they hold no provider or an expired one.
AgentGetUrl(id) ==
  /\ call[id] = "idle"
  /\ got[id] \in expired \union {NoUrl}
  /\ \E r \in Urls \union {NoUrl} :
       /\ GetUrl(id, r)
       /\ got' = [got EXCEPT ![id] = r]
  /\ UNCHANGED call

\* requestNewUrl, first section
AgentRequestNewUrl(id) ==
  /\ call[id] = "idle"
  /\ RemoveAgent(id, TRUE)
  /\ call' = [call EXCEPT ![id] = "renew"]
  /\ UNCHANGED got

\* requestNewUrl, second section
AgentRenew(id) ==
  /\ call[id] = "renew"
  /\ \E r \in Urls \union {NoUrl} :
       /\ GetUrl(id, r)
       /\ got' = [got EXCEPT ![id] = r]
  /\ call' = [call EXCEPT ![id] = "idle"]

\* The agent leaves WGTWorker::run.
AgentLeave(id) ==
  /\ call[id] = "idle"
  /\ RemoveAgent(id, FALSE)
  /\ got' = [got EXCEPT ![id] = NoUrl]
  /\ UNCHANGED call

\* getUrl throws, and the exception ends the agent's thread or, in doDownload,
\* its run of downloads: it uses no provider any more.
AgentThrows(id) ==
  /\ call[id] = "renew" \/ got[id] \in expired \union {NoUrl}
  /\ GetUrlThrows(id)
  /\ call' = [call EXCEPT ![id] = "idle"]
  /\ got' = [got EXCEPT ![id] = NoUrl]

\* WGTController::run
ControllerAsks ==
  /\ \E res \in BOOLEAN : HasValidAgents(res)
  /\ UNCHANGED <<call, got>>

Environment ==
  /\ \E u \in Urls : TimeOutEnds(u) \/ Expire(u)
  /\ UNCHANGED <<call, got>>

Next ==
  \/ \E id \in Ids : \/ AgentGetUrl(id)
                     \/ AgentRequestNewUrl(id)
                     \/ AgentRenew(id)
                     \/ AgentLeave(id)
                     \/ AgentThrows(id)
  \/ ControllerAsks
  \/ Environment

Spec == Init /\ [][Next]_vars

----------------------------------------------------------------------------
\* The stale copy: outside a call, the provider a worker goes on using is one
\* the table still records as its own, unless the link has expired meanwhile.
\* No cleaning, timeout or call of another agent takes it away.
HeldUnlessExpired ==
  \A id \in Ids : (call[id] = "idle" /\ got[id] # NoUrl /\ got[id] \notin expired)
                     => owner[got[id]] = id

\* Two workers never download from the same live provider at the same time.
ExclusiveProvider ==
  \A id1, id2 \in Ids :
    (/\ call[id1] = "idle" /\ call[id2] = "idle"
     /\ got[id1] = got[id2] /\ got[id1] \in Urls \ expired) => id1 = id2

\* getUrl returns nullptr only when every provider on offer is owned by another
\* agent or in timeout: it never gives up while a usable one is left.
NullOnlyWhenNoneFree ==
  [][\A id \in Ids :
       (call'[id] = "idle" /\ got'[id] = NoUrl /\ AgentRenew(id))
          => \A u \in Offered(arrived') : owner'[u] # NoId \/ u \in inTimeOut']_vars

\* A provider that an agent receives anew is the most preferred of those it
\* could have been given, and neither expired nor in timeout.
PreferredFirst ==
  [][\A u \in Urls : (owner[u] = NoId /\ owner'[u] # NoId)
        => /\ u \in Offered(arrived') \ inTimeOut
           /\ \A i, j \in DOMAIN arrived' :
                 (i < j /\ arrived'[j] = u)
                    => (\/ arrived'[i] \in inTimeOut \union expired
                        \/ owner'[arrived'[i]] # NoId)]_vars
=============================================================================
