------------------------------- MODULE MCIssueSet --------------------------------
(* Instances of IssueSet: two issues, one of them with a reference, that are    *)
(* opened and closed; a waiver and a title; a time that does not fit.           *)
EXTENDS IssueSet

CONSTANTS i1, i2, ref, w, title, note

Issue(id, ext, sev, state, at) == [id |-> id, ext |-> ext, sev |-> sev, state |-> state, at |-> at]

MCSpecs == {Issue(i1, "", "low", "open", 1), Issue(i1, ref, "high", "closed", 2),
            Issue(i2, ref, "low", "open", 1), Issue(i2, "", "low", "wontfix", BadTime)}

MCNames == {w}
MCTitles == {title}

Change(id, ts, state, comment) == [id |-> id, ts |-> ts, state |-> state, comment |-> comment]

MCTransitions == {Change(i1, 2, "closed", note), Change(i1, 1, "open", NoComment),
                  Change(i1, 2, "open", NoComment), Change(i2, 1, "closed", note)}

==============================================================================
