----------------------------- MODULE MCMessage -----------------------------
(* A few inputs of each kind the code tells apart, for TLC. *)
EXTENDS Message, TLC

Email(text) == [text |-> text, clean |-> TRUE, ats |-> 1, local |-> TRUE, domain |-> "dotted",
                routable |-> TRUE]
Bob     == [form |-> "bare", email |-> Email("bob"), name |-> None]
Ann     == [form |-> "angle", email |-> Email("ann"), name |-> [text |-> "Ann", clean |-> TRUE]]
Odd     == [form |-> "angle", email |-> [Email("odd") EXCEPT !.routable = FALSE], name |-> None]
TwoAts  == [form |-> "bare", email |-> [Email("two") EXCEPT !.ats = 2], name |-> None]
Open    == [Ann EXCEPT !.form = "unterminated"]
Nested  == [Ann EXCEPT !.form = "nested"]
NoDot   == [Bob EXCEPT !.email.domain = "bare"]
BadName == [Ann EXCEPT !.name.clean = FALSE]

MCInputs == {Bob, Ann, Odd, TwoAts, Open, Nested, NoDot, BadName}
MCLists  == {<<Bob, Ann>>, <<Bob, TwoAts>>}

MCHeaders ==
  {[name |-> "X-Tag", value |-> "a", clean |-> TRUE], [name |-> "x-tag", value |-> "b", clean |-> TRUE],
   [name |-> "Importance", value |-> "c", clean |-> TRUE],
   [name |-> "Bcc", value |-> "d", clean |-> TRUE], [name |-> "X-Tag", value |-> "e", clean |-> FALSE]}
MCLowerCase ==
  ("X-Tag" :> "x-tag") @@ ("Importance" :> "importance") @@ ("Bcc" :> "bcc")
  @@ ("X-Priority" :> "x-priority") @@ ("X-MSMail-Priority" :> "x-msmail-priority")
  @@ ("Message-ID" :> "message-id") @@ ("In-Reply-To" :> "in-reply-to")
  @@ ("References" :> "references")
MCReserved == {"bcc", "message-id", "in-reply-to", "references"}

MCIds == {[id |-> "p", clean |-> TRUE, brackets |-> FALSE], [id |-> "q", clean |-> TRUE, brackets |-> TRUE],
          [id |-> "r", clean |-> FALSE, brackets |-> FALSE]}
MCSubjects == {[text |-> "s", clean |-> TRUE, newline |-> TRUE], [text |-> "t", clean |-> FALSE, newline |-> FALSE]}
MCFiles == {[file |-> "f", typed |-> TRUE], [file |-> "g", typed |-> FALSE]}
MCLevels == {0, 3, 9}

MCDefaultFrom    == Address([Bob EXCEPT !.email.text = "sender"])
MCDefaultReplyTo == Address([Bob EXCEPT !.email.text = "replies"])
=============================================================================
