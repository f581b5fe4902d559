----------------------------- MODULE MCFilesView -----------------------------
(* Every short file whose lines are all different, alone; and a few that   *)
(* change under their reader.  The reader comments on two: the last line   *)
(* was changed or deleted, and then the first is deleted instead, so that  *)
(* every number names another line.  Of the second file the base follows,  *)
(* and there are no changes to draw, and no rows until its blob arrives.   *)
EXTENDS FilesView

CONSTANTS
  MaxScript,  \* bound: lines of the scripts taken one by one
  t1, t2, t3  \* texts

Script(kinds) == [i \in DOMAIN kinds |-> [kind |-> kinds[i], text |-> i]]
Kinds == <<"context", "del", "add">>
Word[i \in Nat] ==
  IF i = 0 THEN <<>> ELSE Append(Word[(i - 1) \div 3], Kinds[((i - 1) % 3) + 1])
Canonical(kinds) == \A i \in 1..(Len(kinds) - 1) : ~(kinds[i] = "add" /\ kinds[i + 1] = "del")
Scripts == LET words == SelectSeq([i \in 1..((3^(MaxScript + 1) - 3) \div 2) |-> Word[i]], Canonical)
           IN [k \in DOMAIN words |-> Script(words[k])]

File(status, script) ==
  [status |-> status, script |-> script, opaque |-> FALSE, folded |-> FALSE,
   missing |-> FALSE, threads |-> <<>>]
Fits(status, s) ==
  CASE status = "modified" -> \E i \in DOMAIN s : s[i].kind # "context"
    [] status = "added" -> \A i \in DOMAIN s : s[i].kind = "add"
    [] status = "removed" -> \A i \in DOMAIN s : s[i].kind = "del"
Alone(status) ==
  LET those == SelectSeq(Scripts, LAMBDA s : Fits(status, s))
  IN [k \in DOMAIN those |-> <<File(status, those[k])>>]

Thread(id, side, line, outdated, whole) ==
  [id |-> id, side |-> side, line |-> line, outdated |-> outdated, whole |-> whole]
Edited == Script(<<"context", "context", "del", "add">>)
Grown == Script(<<"add", "context", "del">>)
Seen == [File("modified", Edited) EXCEPT
           !.threads = <<Thread(1, "RIGHT", 1, FALSE, FALSE), Thread(2, "LEFT", None, FALSE, FALSE),
                         Thread(3, "RIGHT", 2, TRUE, FALSE), Thread(4, "RIGHT", None, FALSE, TRUE)>>]
Cut == Script(<<"context", "context", "del">>)
Instead == Script(<<"del", "context", "context">>)
Merged(script) == [i \in DOMAIN HeadFile(script) |-> [kind |-> "context", text |-> HeadFile(script)[i]]]
Then == <<File("modified", Edited), File("modified", Instead)>>
Low == Script(<<"context", "context", "context", "context", "add">>)
High == Script(<<"add", "context", "context", "context">>)
Unchanged ==
  <<[File("renamed", Cut) EXCEPT
       !.threads = <<Thread(1, "RIGHT", 1, FALSE, FALSE), Thread(2, "LEFT", 3, FALSE, FALSE)>>],
    [File("renamed", Merged(Instead)) EXCEPT
       !.threads = <<Thread(1, "RIGHT", None, FALSE, FALSE), Thread(2, "LEFT", 3, TRUE, FALSE)>>]>>
Synced == <<Then, Unchanged,
            <<File("modified", Low), File("modified", High)>>,
            <<Seen, [File("modified", Grown) EXCEPT !.missing = TRUE]>>,
            <<[File("modified", Grown) EXCEPT !.folded = TRUE], Seen>>,
            <<File("renamed", Script(<<"context", "context">>)),
              [File("modified", Edited) EXCEPT !.opaque = TRUE]>>>>
All == Synced \o Alone("modified") \o Alone("added") \o Alone("removed")
Typed == 1 :> {t1} @@ 2 :> {t2, t3}
Alike == Permutations({t2, t3})
=============================================================================
