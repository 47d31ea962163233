------------------------------- MODULE MCNet -------------------------------
(* Model values for Net: one script for each group of commands, and only the *)
(* hosts that the script needs.                                              *)
EXTENDS Net

MCNoDgram == [id |-> 0, ans |-> [t |-> "none", v |-> "none"]]
Script(cmds, hosts, sends, events) == [cmds |-> cmds, hosts |-> hosts, sends |-> sends, events |-> events]
Boot == <<"boot", None>>
MCScripts ==
  { Script(<<Boot>>, {"h1"}, 1, 2),
    Script(<<Boot, <<"ping", "h1">>, <<"ping", "h2">>>>, {"h1", "h2"}, 1, 1),
    Script(<<Boot, <<"dhcp", None>>>>, {"s1", "s2"}, 0, 1),
    Script(<<Boot, <<"renew", None>>>>, {"s1", "s2"}, 0, 0),
    Script(<<Boot, <<"renew", None>>>>, {"s1"}, 0, 1),
    Script(<<Boot, <<"ping", "s1">>, <<"dhcp", None>>>>, {"s1"}, 0, 1),
    Script(<<Boot, <<"dns", "a">>, <<"dns", "dd">>>>, {"s0"}, 0, 0),
    Script(<<Boot, <<"dns", "c">>>>, {"s0"}, 0, 1),
    Script(<<Boot, <<"dns", "bb">>>>, {"s0"}, 0, 0),
    Script(<<Boot, <<"dns", "a">>, <<"dns", "a">>>>, {"s0"}, 0, 1),
    Script(<<Boot, <<"dns", "l">>>>, {"s0"}, 0, 0),
    Script(<<<<"ping6", "h3">>, <<"ping6", "f6">>>>, {"h3", "r6"}, 0, 2) }
(* c is an alias of dd (longer), bb of a (shorter), and l of itself. *)
MCZone ==
  LET A(v) == [t |-> "A", v |-> v]
      Alias(v) == [t |-> "CNAME", v |-> v]
  IN [x \in {"a", "c", "dd", "bb", "l"} |->
        CASE x = "a" -> A("addr1") [] x = "dd" -> A("addr2")
          [] x = "c" -> Alias("dd") [] x = "bb" -> Alias("a") [] OTHER -> Alias("l")]
MCNameLen == [x \in {"a", "c", "dd", "bb", "l"} |-> IF x \in {"dd", "bb"} THEN 2 ELSE 1]
=============================================================================
