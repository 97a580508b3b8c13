---------------------------- MODULE MCStateStore ----------------------------
(* StateStore with auths for one registry that are added and removed within  *)
(* a second, auths for a part of that registry and for blank resources, and  *)
(* one call.  A second is two units of time.                                 *)
EXTENDS StateStore

MCEvents == 1..5
MCKind == <<"authAdded", "authRemoved", "authAdded", "authAdded", "callStarted">>
MCSubjects == {"", "docker.io", "docker.io/org", "call"}
MCSubject == <<"docker.io", "docker.io", "docker.io/org", "", "call">>
MCPrefixes == [s \in MCSubjects |->
                  {"", s} \cup IF s = "docker.io/org" THEN {"docker.io"} ELSE {}]
MCLength == [s \in MCSubjects |->
                CASE s = "" -> 0 [] s = "docker.io/org" -> 13 [] OTHER -> 9]
MCTime == <<1, 2, 5, 6, 12>>
=============================================================================
