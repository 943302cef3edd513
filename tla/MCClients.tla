----------------------------- MODULE MCClients -----------------------------
(* Small instances of the modules of the clients (Outbox, Feed, Display,    *)
(* Scrollback, Rpc) and of the servers the engine is a client of (McpStdio, *)
(* McpOAuth, Lsp, and Assembly for a model's answer), checked side by side: *)
(* a behaviour is one of one module, with the variables of the others at    *)
(* rest.                                                                    *)
EXTENDS Outbox, Feed, Display, Scrollback, Rpc, McpStdio, McpOAuth, Lsp, Assembly

CONSTANTS x1, x2, p1, p2

VARIABLE part

Parts == {"outbox", "feed", "display", "scrollback", "rpc", "stdio", "oauth", "lsp",
          "assembly"}

clientsVars == <<part, outboxVars, feedVars, displayVars, scrollVars, rpcVars, stdioVars,
                 oauthVars, lspVars, assemblyVars>>

(* The three requests of the server are interchangeable, and so are the two *)
(* request ids: one order of the methods and ids stands for all of them.    *)
Place(m) == CASE m = "call" -> 1 [] m = "note" -> 2 [] m = "prompt" -> 3

InOrder ==
    /\ \A r, q \in RpcRequests : r < q => Place(method[r]) <= Place(method[q])
    /\ \A r, q \in RpcRequests :
           r < q /\ method[r] = "prompt" => requestKey[r] <= requestKey[q]
    /\ \A r \in RpcRequests : method[r] # "prompt" => requestKey[r] = 1
    /\ (\E r \in RpcRequests : method[r] = "prompt") =>
           \E r \in RpcRequests : method[r] = "prompt" /\ requestKey[r] = 1

(* A part's own initial states, and one of each of the other modules. *)
ClientsInit ==
    /\ part \in Parts
    /\ OutboxInit /\ (part # "outbox" => ~session /\ ~harness)
    /\ FeedInit /\ (part # "feed" => ~remote)
    /\ DisplayInit
    /\ ScrollInit /\ (part # "scrollback" => room = 1)
    /\ RpcInit /\ InOrder
    /\ part # "rpc" => \A r \in RpcRequests : method[r] = "call"
    /\ StdioInit
    /\ OAuthInit /\ (part # "oauth" => server = "none" /\ ~stubborn)
    /\ LspInit
    /\ AssemblyInit
    /\ part # "assembly" => dialect = "chat" /\ \A i \in Indexes : plan[i] = 0

(* Texts and prompts are interchangeable as well: the first of each is the   *)
(* first to be used.  A symmetry set would do the same, but not under        *)
(* temporal properties.                                                      *)
FirstTextFirst == x1 \in unsent' => x2 \in unsent'
FirstPromptFirst == told'[p1] = "absent" => told'[p2] = "absent"

ClientsNext ==
    /\ UNCHANGED part
    /\ \/ /\ part = "outbox" /\ OutboxNext /\ FirstTextFirst /\ FirstPromptFirst
          /\ UNCHANGED <<feedVars, displayVars, scrollVars, rpcVars, stdioVars,
                         oauthVars, lspVars, assemblyVars>>
       \/ /\ part = "feed" /\ FeedNext
          /\ UNCHANGED <<outboxVars, displayVars, scrollVars, rpcVars, stdioVars,
                         oauthVars, lspVars, assemblyVars>>
       \/ /\ part = "display" /\ DisplayNext
          /\ UNCHANGED <<outboxVars, feedVars, scrollVars, rpcVars, stdioVars,
                         oauthVars, lspVars, assemblyVars>>
       \/ /\ part = "scrollback" /\ ScrollNext
          /\ UNCHANGED <<outboxVars, feedVars, displayVars, rpcVars, stdioVars,
                         oauthVars, lspVars, assemblyVars>>
       \/ /\ part = "rpc" /\ RpcNext
          /\ UNCHANGED <<outboxVars, feedVars, displayVars, scrollVars, stdioVars,
                         oauthVars, lspVars, assemblyVars>>
       \/ /\ part = "stdio" /\ StdioNext
          /\ UNCHANGED <<outboxVars, feedVars, displayVars, scrollVars, rpcVars,
                         oauthVars, lspVars, assemblyVars>>
       \/ /\ part = "oauth" /\ OAuthNext
          /\ UNCHANGED <<outboxVars, feedVars, displayVars, scrollVars, rpcVars,
                         stdioVars, lspVars, assemblyVars>>
       \/ /\ part = "lsp" /\ LspNext
          /\ UNCHANGED <<outboxVars, feedVars, displayVars, scrollVars, rpcVars,
                         stdioVars, oauthVars, assemblyVars>>
       \/ /\ part = "assembly" /\ AssemblyNext
          /\ UNCHANGED <<outboxVars, feedVars, displayVars, scrollVars, rpcVars,
                         stdioVars, oauthVars, lspVars>>

(* The fairness of each module, for the behaviours that are its own. *)
ClientsFairness ==
    /\ WF_outboxVars(part = "outbox" /\ EngineTakes)
    /\ WF_outboxVars(part = "outbox" /\ (CallReturns \/ CallFails))
    /\ WF_feedVars(part = "feed" /\ LocalPoll) /\ WF_feedVars(part = "feed" /\ Connects)
    /\ WF_feedVars(part = "feed" /\ ServerPoll) /\ WF_feedVars(part = "feed" /\ ReadFrame)
    /\ WF_feedVars(part = "feed" /\ Flush) /\ WF_feedVars(part = "feed" /\ BacksOff)
    /\ WF_feedVars(part = "feed" /\ WaitEvents) /\ WF_feedVars(part = "feed" /\ OnEvents)
    /\ WF_displayVars(part = "display" /\ RunEnds)
    /\ WF_displayVars(part = "display" /\ \E j \in (seen + 1) .. Len(log) : Applies(j))
    /\ WF_displayVars(part = "display" /\ Fetches)
    /\ WF_displayVars(part = "display" /\ Reconciles)
    /\ WF_scrollVars(part = "scrollback" /\ Lands) /\ WF_scrollVars(part = "scrollback" /\ Printed)
    /\ WF_scrollVars(part = "scrollback" /\ FirstSize)
    /\ WF_scrollVars(part = "scrollback" /\ \E g \in timers : TimerFires(g))
    /\ \A r \in RpcRequests :
           /\ WF_rpcVars(part = "rpc" /\ (DispatchCall(r) \/ RpcPrompt(r)))
           /\ WF_rpcVars(part = "rpc" /\ \E status_ \in {"pass", "cancelled"} : TurnEnds(r, status_))
           /\ WF_rpcVars(part = "rpc" /\ TurnCleared(r)) /\ WF_rpcVars(part = "rpc" /\ Responds(r))
    /\ WF_rpcVars(part = "rpc" /\ ServeReturns)
    /\ WF_stdioVars(part = "stdio" /\ \E i \in asked : ServerAnswers(i))
    /\ WF_stdioVars(part = "stdio" /\ \E got \in SUBSET readers : ReadLine(got))
    /\ WF_stdioVars(part = "stdio" /\ \E i \in readers : ReadEnd(i))
    /\ \A c \in Calls : WF_stdioVars(part = "stdio" /\ StdioReturns(c))

(* The clients get on: prompts are answered, events received, the transcript *)
(* printed, Serve ends with its input, and calls of a living server return.  *)
ClientsProgress ==
    PromptsAnswered /\ AllReceived /\ EventuallyPrinted /\ ServeEnds /\ AnsweredReturns

ClientsSpec == ClientsInit /\ [][ClientsNext]_clientsVars /\ ClientsFairness
=============================================================================
