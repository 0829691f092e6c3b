------------------------------ MODULE MCTrust ------------------------------
(* Trust and Login, each with its own small instance, side by side: a      *)
(* behaviour is one of the files and the questions, or one of a login.     *)
EXTENDS Trust, Login

CONSTANTS h1, h2, k1, k2, rsa, c1, c2, ka, kb

MCKeyType == [k \in Keys |-> IF k = rsa THEN "ssh-rsa" ELSE "ssh-ed25519"]
MCOffers == [h \in Hosts |-> IF h = h1 THEN {k1, k2} ELSE {rsa}]
MCRequests ==
    [c \in Connects |->
        IF c = c1 THEN {[path |-> <<h1>>, policy |-> "ask", interactive |-> TRUE]}
        ELSE {[path |-> <<h1>>, policy |-> "ask", interactive |-> TRUE],
              [path |-> <<h2, h1>>, policy |-> "accept-new", interactive |-> FALSE]}]
MCTheirs == {<<LineFor(h1, k1)>>}
MCImports == {<<[mark |-> "none", hosts |-> {h1, h2}, key |-> k1],
                [mark |-> "@revoked", hosts |-> {h1}, key |-> k2]>>}

-----------------------------------------------------------------------------
Blank == [kind |-> "password", right |-> FALSE, key |-> NoKey, hardware |-> FALSE,
          cert |-> "none", pin |-> NoKey, agent |-> <<>>]
Identity(k, cert, signs) == [key |-> k, cert |-> cert, signs |-> signs]
Agents ==
    {<<>>, <<Identity(kb, FALSE, TRUE), Identity(ka, FALSE, TRUE)>>,
     <<Identity(kb, TRUE, TRUE), Identity(ka, FALSE, FALSE), Identity(ka, TRUE, TRUE)>>}
MCWays ==
    {[Blank EXCEPT !.right = r] : r \in BOOLEAN} \union {[Blank EXCEPT !.kind = "prompts"]}
    \union {[Blank EXCEPT !.kind = "key", !.key = ka, !.cert = c, !.hardware = h] :
                c \in {"none", "unreadable", "expired", "valid"}, h \in BOOLEAN}
    \union {[Blank EXCEPT !.kind = "agent", !.pin = p, !.agent = a] :
                p \in {NoKey, ka}, a \in Agents}
MCLists ==
    {{<<"password", "publickey">>, <<"publickey">>, <<"keyboard-interactive">>},
     {<<"keyboard-interactive">>},
     {<<"publickey", "keyboard-interactive">>, <<"password", "keyboard-interactive">>},
     {<<"publickey", "publickey">>}}
MCRounds == {<<"question">>, <<"status", "status">>, <<"question", "status", "question", "status">>}
MCAttempts ==
    [way : MCWays, attended : BOOLEAN,
     server : [lists : MCLists, keys : {{}, {ka}, {ka, kb}}, ca : BOOLEAN, rounds : MCRounds]]

-----------------------------------------------------------------------------

BesideInit == Init /\ LoginInit
BesideNext ==
    \/ LoginInit /\ Next /\ UNCHANGED lvars
    \/ Init /\ LoginNext /\ UNCHANGED vars
BesideSpec ==
    /\ BesideInit /\ [][BesideNext]_<<vars, lvars>>
    /\ Fairness /\ LoginFairness
=============================================================================
