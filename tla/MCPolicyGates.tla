---------------------------- MODULE MCPolicyGates ------------------------------
(* The policy gates on small instances. *)
EXTENDS PolicyGates

CONSTANTS t1, t2, p1, p2, p3, tool, word, cmd, doc, editor

\* A rule that counts writes to documents, and one about launches of a tool, in two versions.
Writes(threshold, window) ==
  [id |-> 1, operations |-> {"write"}, initiators |-> {}, terms |-> {}, targets |-> {doc},
   threshold |-> threshold, window |-> window, closed |-> FALSE]
Launches(closed) ==
  [id |-> 2, operations |-> {"launch"}, initiators |-> {[image |-> tool, byPath |-> TRUE]},
   terms |-> {"/x"}, targets |-> {}, threshold |-> 0, window |-> 1, closed |-> closed]
Before == <<Writes(2, 2), Launches(TRUE)>>
After == <<Launches(FALSE), Launches(TRUE), Writes(4, 1)>>
Sets == {<<>>, Before, After}

Elsewhere == {[image |-> editor, byPath |-> TRUE, scopes |-> {"registry"}]}
Lists == {{}, Elsewhere, {[image |-> tool, byPath |-> FALSE, scopes |-> {"process", "registry"}],
                          [image |-> editor, byPath |-> FALSE, scopes |-> {"file"}]}}

Configs == {[enabled |-> TRUE, paths |-> {<<"run", "a">>}],
            [enabled |-> TRUE, paths |-> {<<"run", "b">>}],
            [enabled |-> FALSE, paths |-> {}]}

Launch(p, image, parent, terms) ==
  [op |-> "launch", pid |-> p, image |-> image, parent |-> parent, terms |-> terms,
   target |-> "none"]
File(p, op, target) ==
  [op |-> op, pid |-> p, image |-> editor, terms |-> {}, target |-> target]
Change(p, image, change, path, name) ==
  [op |-> "registry", pid |-> p, image |-> image, change |-> change, path |-> path,
   newName |-> name]

LaunchCalls ==
  {Launch(p3, tool, editor, terms) : terms \in {{}, {"/x"}, {"takeown"}, {"mountvol", "/s"}}}
  \cup {Launch(p3, cmd, word, {})}
FileCalls == {File(p1, "write", doc), File(p2, "write", doc)}
RegistryCalls ==
  {Change(p1, editor, "set value", <<"run", "a">>, "none"),
   Change(p1, editor, "delete key", <<"run">>, "none"),
   Change(p1, editor, "create key", <<"run", "a", "c">>, "none"),
   Change(p1, editor, "rename key", <<"run", "c">>, "a"),
   Change(p1, editor, "rename key", <<"run", "a">>, "long"),
   Change(p1, editor, "rename key", <<"run", "c">>, "long"),
   Change(p2, tool, "set value", <<"run", "b">>, "none"),
   Change(p3, tool, "set value", <<"run", "a">>, "none")}
CallsOf == t1 :> FileCalls \cup LaunchCalls @@ t2 :> {File(p1, "write", doc)} \cup RegistryCalls

\* The client has sent the one set of rules or a registry list first, and with the rules no
\* exclusion that is about registry changes alone.
First == {i \in [rules : {<<>>, Before}, exclusions : Lists, registry : Configs] :
            /\ (i.rules = <<>>) = i.registry.enabled
            /\ i.exclusions = Elsewhere => i.rules = <<>>}
=============================================================================
