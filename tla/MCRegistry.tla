----------------------------- MODULE MCRegistry -----------------------------
(* Small instances of Registry for TLC.                                    *)
EXTENDS Registry, TLC

File(ps, key) ==
  [node |-> "regular", worldWritable |-> FALSE, tooLong |-> FALSE,
   parses |-> TRUE, entries |-> [p \in ps |-> key]]

EmptyFile == File({}, "k1")
PartialWrite == [EmptyFile EXCEPT !.parses = FALSE]
WorldWritable == [File({"b"}, "k1") EXCEPT !.worldWritable = TRUE]
NamesDefault == File({"a", "_default"}, "k1")
Linked(f) == [f EXCEPT !.node = "link"]

(* Rotation of a key, a second project, removal of all, as a Kubernetes    *)
(* Secret presents them; and two files that are refused.                   *)
RotatingFiles == {EmptyFile, Linked(File({"a"}, "k1")), Linked(File({"a"}, "k2")),
                  File({"a", "b"}, "k1"), NamesDefault, WorldWritable}
FewFiles == {EmptyFile, File({"a"}, "k1"), PartialWrite}
NoFiles == {EmptyFile}

Tagged(p, token) == [form |-> "ok", project |-> p, token |-> token]
Untagged == Tagged(NoProject, FALSE)
Faulty(form) == [form |-> form, project |-> NoProject, token |-> FALSE]

PlainPayloads == {Tagged("a", FALSE), Untagged, Faulty("malformed")}
InlinePayloads == {Tagged("a", TRUE), Tagged("b", TRUE), Tagged("a", FALSE),
                   Untagged, Faulty("bad_project"), Faulty("bad_token")}
RacePayloads == {Tagged("a", TRUE), Tagged("b", TRUE)}
MixedPayloads == {Tagged("a", TRUE), Tagged("a", FALSE)}
DefaultPayloads == {Tagged("_default", TRUE), Tagged("a", TRUE)}
=============================================================================
