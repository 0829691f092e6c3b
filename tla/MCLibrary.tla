----------------------------- MODULE MCLibrary -----------------------------
(* A small library, a file from another machine and an ssh config.         *)
EXTENDS Library

Host(id, addr) == NewServer(<<id, 0>>, addr, None, None)

MCStarts == {[Empty EXCEPT
    !.servers = <<[Host("h", "a") EXCEPT !.pw = "master"], [Host("j", "b") EXCEPT !.pw = "master"]>>,
    !.keys = <<KeyEntry(<<"k", 0>>, "k", None, "master")>>]}

(* Of its hosts one is here under another id, one is new and goes through  *)
(* the first; the identity it signs in with holds the file's key.          *)
MCForeign == [Empty EXCEPT
    !.servers = <<[Host("f", "a") EXCEPT !.pw = "export"],
                  [Host("g", "c") EXCEPT !.jump = <<"f", 0>>, !.identity = <<"m", 0>>]>>,
    !.identities = <<NewIdentity(<<"m", 0>>, "m", <<"q", 0>>)>>,
    !.keys = <<KeyEntry(<<"q", 0>>, "q", None, "export")>>,
    !.rules = <<PortForwarding(<<"t", 0>>, "t", <<"g", 0>>)>>]

Line(key, words) == [key |-> key, value |-> words]
MCConfig == [f \in {"config", "more"} |->
    IF f = "config"
    THEN <<Line("host", <<"x", "*">>), Line("proxyjump", <<"z", "y">>), Line("hostname", <<"d">>),
           Line("include", <<"more", "gone">>), Line("identityfile", <<"id">>)>>
    ELSE <<Line("host", <<"y", "z">>), Line("match", <<"all">>), Line("hostname", <<"e">>),
           Line("include", <<"config">>)>>]
MCAliases == <<"x", "y">>

MCClientFile == <<[protocol |-> "ssh", address |-> "a", password |-> TRUE],
                  [protocol |-> None, address |-> "e", password |-> TRUE],
                  [protocol |-> "rdp", address |-> "f", password |-> FALSE]>>

MCParts == {Everything, {"servers", "rules"}}
=============================================================================
