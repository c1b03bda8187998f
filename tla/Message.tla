------------------------------- MODULE Message -------------------------------
(***************************************************************************)
(* One email from the caller to what a provider's client is handed: the     *)
(* fluent builder and validate of src/src/email.rs, Mailer's defaults, the  *)
(* queued job's body (Arc<Email> in memory, JSON in Redis), and the message *)
(* each of the four transports builds from it, once per attempt.            *)
(* Texts are reduced to what the code tells apart; the provider SDKs end    *)
(* where they are handed the message, and of lettre there is its parser's   *)
(* verdict on an address and its builder's map of headers.                 *)
(***************************************************************************)
EXTENDS Integers, Sequences, FiniteSets, Functions

CONSTANTS
  None,
  Inputs,        \* address strings: [form, email, name], the email in turn
                 \* [text, clean, ats, local, domain, routable]: free of
                 \* control characters and blanks, how many @, what is
                 \* around it, and whether lettre's own parser takes it
  Lists,         \* what to_many is given: sequences of Inputs
  Headers,       \* custom headers: [name, value, clean]
  LowerCase,     \* the lower-case form of a header name
  Reserved,      \* RESERVED_HEADERS and Content-*, in lower case
  Ids,           \* message identifiers: [id, clean, brackets]
  Subjects,      \* [text, clean, newline]: newline, if it ends in blanks
  Files,         \* attachments before their builder calls: [file, typed]
  Levels,        \* arguments of priority
  DefaultFrom, DefaultReplyTo,   \* MailerConfig: addresses or None
  MaxCalls,      \* bound on the calls of the builder
  MaxAttempts    \* bound on the times a message is sent

ASSUME MessageConfig ==
  /\ \A s \in Inputs : s.form \in {"bare", "angle", "unterminated", "nested"}
  /\ Lists \subseteq Seq(Inputs) /\ None \notin Inputs
  /\ None \notin [email : {s.email : s \in Inputs}, name : {s.name : s \in Inputs} \cup {None}]
  /\ Ids \subseteq [id : {i.id : i \in Ids}, clean : BOOLEAN, brackets : BOOLEAN]
  /\ Levels \subseteq Nat /\ MaxCalls \in Nat /\ MaxAttempts \in Nat

(* The entries of list that are in S, in their order.                       *)
Only(list, S) ==
  LET upto[i \in 0 .. Len(list)] ==
        IF i = 0 THEN <<>>
        ELSE IF list[i] \in S THEN Append(upto[i - 1], list[i]) ELSE upto[i - 1]
  IN  upto[Len(list)]

Transports == {"smtp", "ses", "sendgrid", "mailgun"}

VARIABLES
  email,    \* the Email under construction
  calls,    \* calls of the builder so far
  asked,    \* history: the addresses and headers the caller gave
  path,     \* "checked" in an EmailBuilder, "building" as an Email, then
            \* how it was submitted, or "refused"
  body,     \* what the send works on: the Email, or the job's
  wires     \* per attempt: what each transport would hand over

vars == <<email, calls, asked, path, body, wires>>

-----------------------------------------------------------------------------
(* Addresses. *)

(* validate_email *)
WellFormed(m) == m.clean /\ m.ats = 1 /\ m.local /\ m.domain = "dotted"

(* Address::parse: "Name <email>" or a bare email; an empty name is none.   *)
Parses(s) ==
  /\ s.form \in {"bare", "angle"} /\ WellFormed(s.email)
  /\ s.form = "angle" /\ s.name # None => s.name.clean

Address(s) == [email |-> s.email, name |-> IF s.form = "angle" THEN s.name ELSE None]

-----------------------------------------------------------------------------
(* Headers. *)

Key(n) == IF n \in DOMAIN LowerCase THEN LowerCase[n] ELSE n

(* validate_header; a header with a control character is not clean.         *)
HeaderOk(h) == h.clean /\ Key(h.name) \notin Reserved

(* The headers of the threading fields are reserved, those of the priority  *)
(* are not.                                                                *)
ASSUME HeaderNames ==
  /\ {Key("Message-ID"), Key("In-Reply-To"), Key("References")} \subseteq Reserved
  /\ Key("Message-ID") # Key("In-Reply-To") /\ Key("Message-ID") # Key("References")
  /\ Key("In-Reply-To") # Key("References")
  /\ {Key("X-Priority"), Key("X-MSMail-Priority"), Key("Importance")} \cap Reserved = {}

Header(n, value) == [name |-> n, values |-> <<value>>]

AngleWrapped(id) == [id EXCEPT !.brackets = TRUE]

WireSubject(s) == [s EXCEPT !.newline = FALSE]

PriorityHeaders(e) ==
  IF e.priority = None THEN <<>>
  ELSE LET level == <<"High", "High", "Normal", "Low", "Low">>[e.priority]
       IN  << Header("X-Priority", <<e.priority, level>>),
              Header("X-MSMail-Priority", level), Header("Importance", level) >>

(* A bug: the caller's headers only. *)
WithoutPriority(e) ==
  [i \in DOMAIN e.headers |-> Header(e.headers[i].name, e.headers[i].value)]

(* wire_headers, each with the list of its values *)
WireHeaders(e) ==
  LET custom == Only(e.headers, {h \in Range(e.headers) : HeaderOk(h)})
  IN  [i \in DOMAIN custom |-> Header(custom[i].name, custom[i].value)] \o PriorityHeaders(e)

-----------------------------------------------------------------------------
(* The builder.  A setter cannot answer an error: it records it.            *)

NewEmail ==
  [from |-> None, reply_to |-> None, to |-> <<>>, cc |-> <<>>, bcc |-> <<>>,
   subject |-> None, text |-> FALSE, html |-> FALSE, attachments |-> <<>>, headers |-> <<>>,
   message_id |-> None, references |-> <<>>, in_reply_to |-> None, priority |-> None,
   invalid_addresses |-> {}, invalid_headers |-> {}]

RecordInvalid(e, s) == [e EXCEPT !.invalid_addresses = @ \cup {s}]

(* from, reply_to *)
WithAddress(e, field, s) ==
  IF Parses(s) THEN [e EXCEPT ![field] = Address(s)] ELSE RecordInvalid(e, s)

(* A bug: a Cc or Bcc that does not parse is left out. *)
CopiesDropped(e, field, s) ==
  IF Parses(s) THEN [e EXCEPT ![field] = Append(@, Address(s))]
  ELSE IF field = "to" THEN RecordInvalid(e, s) ELSE e

(* to, cc, bcc *)
WithRecipient(e, field, s) ==
  IF Parses(s) THEN [e EXCEPT ![field] = Append(@, Address(s))] ELSE RecordInvalid(e, s)

(* to_many, one address after the other *)
WithMany(e, list) ==
  LET after[i \in 0 .. Len(list)] ==
        IF i = 0 THEN e ELSE WithRecipient(after[i - 1], "to", list[i])
  IN  after[Len(list)]

WithHeader(e, h) ==
  IF HeaderOk(h) THEN [e EXCEPT !.headers = Append(@, h)]
                 ELSE [e EXCEPT !.invalid_headers = @ \cup {h}]

(* A bug: the level is taken as it is. *)
AsGiven(p) == p

Clamped(p) == IF p < 1 THEN 1 ELSE IF p > 5 THEN 5 ELSE p

(* Attachment::new, then its own builder: inline and content_id, the second *)
(* of which a later disposition may take back.                              *)
NewAttachment(f)   == [file |-> f.file, typed |-> f.typed, disposition |-> "attachment", content_id |-> FALSE]
Inline(a)          == [a EXCEPT !.disposition = "inline"]
WithContentId(a)   == [a EXCEPT !.content_id = TRUE, !.disposition = "inline"]
WithDisposition(a, d) == [a EXCEPT !.disposition = d]

Attachments ==
  UNION {LET a == NewAttachment(f)
         IN  {a, Inline(a), WithContentId(a), WithDisposition(WithContentId(a), "attachment")} :
           f \in Files}

(* A bug: the recorded addresses are not looked at. *)
ValidFields(e) ==
  /\ e.invalid_headers = {}
  /\ e.from # None /\ e.subject # None
  /\ e.to # <<>> \/ e.cc # <<>> \/ e.bcc # <<>>
  /\ e.text \/ e.html

(* validate *)
Valid(e) ==
  /\ e.invalid_addresses = {} /\ e.invalid_headers = {}
  /\ \A i \in DOMAIN e.headers : HeaderOk(e.headers[i])
  /\ e.from # None /\ e.subject # None
  /\ e.to # <<>> \/ e.cc # <<>> \/ e.bcc # <<>>
  /\ e.text \/ e.html
  /\ e.subject.clean
  /\ \A id \in {e.message_id, e.in_reply_to} \ {None} : id.clean
  /\ \A i \in DOMAIN e.references : e.references[i].clean

-----------------------------------------------------------------------------
(* What each transport hands over, or None if it answers an error first.    *)

Content(given, otherwise) == IF given THEN "given" ELSE otherwise

Envelope(e) ==
  [from |-> e.from, reply_to |-> e.reply_to, to |-> e.to, cc |-> e.cc, bcc |-> e.bcc,
   subject |-> WireSubject(e.subject),
   text |-> Content(e.text, "none"), html |-> Content(e.html, "none"),
   headers |-> <<>>, parts |-> <<>>]

Senders(e) == {e.from, e.reply_to} \ {None}
Recipients(e) == Range(e.to) \cup Range(e.cc) \cup Range(e.bcc)

Embedded(a) == a.disposition = "inline" /\ a.content_id

(* build_part, and where to_lettre puts the part *)
Part(a) == [file |-> a.file, inline |-> a.disposition = "inline", related |-> Embedded(a)]

(* lettre's map of headers: one of the same name, whatever its case, is      *)
(* replaced where it stands.                                               *)
InsertRaw(list, h) ==
  IF \E i \in DOMAIN list : Key(list[i].name) = Key(h.name)
  THEN [i \in DOMAIN list |-> IF Key(list[i].name) = Key(h.name) THEN h ELSE list[i]]
  ELSE Append(list, h)

Inserted(list) ==
  LET upto[i \in 0 .. Len(list)] == IF i = 0 THEN <<>> ELSE InsertRaw(upto[i - 1], list[i])
  IN  upto[Len(list)]

(* The headers to_lettre sets of lettre's builder, in the order of its calls; *)
(* references is called once for each.                                     *)
HeaderCalls(e) ==
  (IF e.message_id = None THEN <<>> ELSE << Header("Message-ID", AngleWrapped(e.message_id)) >>)
  \o (IF e.in_reply_to = None THEN <<>> ELSE << Header("In-Reply-To", e.in_reply_to) >>)
  \o [i \in DOMAIN e.references |-> Header("References", e.references[i])]
  \o WireHeaders(e)

(* to_lettre *)
ToLettre(e) ==
  IF ~Valid(e) \/ (\E a \in Senders(e) \cup Recipients(e) : ~a.email.routable)
     \/ (\E i \in DOMAIN e.attachments : ~e.attachments[i].typed)
  THEN None
  ELSE LET related == {a \in Range(e.attachments) : Embedded(a)}
           parts   == Only(e.attachments, related)
                      \o Only(e.attachments, Range(e.attachments) \ related)
       IN [Envelope(e) EXCEPT
             !.text = Content(e.text, "empty"), !.html = Content(e.html, "empty"),
             !.headers = Inserted(HeaderCalls(e)),
             !.parts = [i \in DOMAIN parts |-> Part(parts[i])]]

(* The threading headers of the two HTTP transports, References as one list *)
Threading(e) ==
  (IF e.message_id = None THEN <<>> ELSE << Header("Message-ID", AngleWrapped(e.message_id)) >>)
  \o (IF e.in_reply_to = None THEN <<>> ELSE << Header("In-Reply-To", AngleWrapped(e.in_reply_to)) >>)
  \o (IF e.references = <<>> THEN <<>>
      ELSE << [name |-> "References",
               values |-> [i \in DOMAIN e.references |-> AngleWrapped(e.references[i])]] >>)

(* Values of one name, whatever its case, are joined.                       *)
Folded(list, h) ==
  IF \E i \in DOMAIN list : Key(list[i].name) = Key(h.name)
  THEN [i \in DOMAIN list |-> IF Key(list[i].name) = Key(h.name)
                              THEN [list[i] EXCEPT !.values = @ \o h.values] ELSE list[i]]
  ELSE Append(list, h)

Combined(list) ==
  LET upto[i \in 0 .. Len(list)] == IF i = 0 THEN <<>> ELSE Folded(upto[i - 1], list[i])
  IN  upto[Len(list)]

BuildHeaders(e) == Combined(WireHeaders(e) \o Threading(e))

SendGrid(e) ==
  IF ~Valid(e) THEN None
  ELSE [Envelope(e) EXCEPT
          !.headers = BuildHeaders(e),
          !.parts = [i \in DOMAIN e.attachments |-> Part(e.attachments[i])]]

(* Mailgun calls a part inline if it has a content id.                      *)
Mailgun(e) ==
  IF ~Valid(e) \/ (\E i \in DOMAIN e.attachments : ~e.attachments[i].typed) THEN None
  ELSE [Envelope(e) EXCEPT
          !.headers = WireHeaders(e) \o Threading(e),
          !.parts = [i \in DOMAIN e.attachments |->
            [file |-> e.attachments[i].file, inline |-> e.attachments[i].content_id,
             related |-> e.attachments[i].content_id]]]

(* A bug: the threading fields are forgotten. *)
NeedsMimeForParts(e) == e.attachments # <<>> \/ WireHeaders(e) # <<>>

NeedsRawMime(e) ==
  \/ e.attachments # <<>> \/ WireHeaders(e) # <<>>
  \/ e.message_id # None \/ e.in_reply_to # None \/ e.references # <<>>

Ses(e) ==
  IF ~Valid(e) THEN None
  ELSE IF NeedsRawMime(e) THEN ToLettre(e) ELSE Envelope(e)

Wire(t, e) ==
  CASE t = "smtp" -> ToLettre(e)
    [] t = "ses" -> Ses(e)
    [] t = "sendgrid" -> SendGrid(e)
    [] t = "mailgun" -> Mailgun(e)

-----------------------------------------------------------------------------
(* The two ways to a transport. *)

(* apply_defaults *)
ApplyDefaults(e) ==
  [e EXCEPT !.from = IF @ = None THEN DefaultFrom ELSE @,
            !.reply_to = IF @ = None THEN DefaultReplyTo ELSE @]

(* A bug: only a missing sender is looked at. *)
NeedsSender(e) == e.from = None /\ DefaultFrom # None

NeedsDefaults(e) ==
  \/ e.from = None /\ DefaultFrom # None
  \/ e.reply_to = None /\ DefaultReplyTo # None

(* send_shared clones the email only to apply a default. *)
SendShared(e) == IF NeedsDefaults(e) THEN ApplyDefaults(e) ELSE e

(* The id a job is given; no other message has it.                          *)
Minted == [id |-> "minted", clean |-> TRUE, brackets |-> FALSE]

(* A bug: no id is stamped. *)
Unstamped(e) == e

(* EmailJob::new *)
Stamped(e) == IF e.message_id = None THEN [e EXCEPT !.message_id = Minted] ELSE e

(* A bug: the recorded errors are not part of the stored form. *)
WithoutErrors(e) == [f \in DOMAIN e \ {"invalid_addresses", "invalid_headers"} |-> e[f]]

(* The derived Serialize writes every field ...                             *)
ToJson(e) == [f \in DOMAIN e |-> e[f]]

(* ... and a field that is absent is read as its default.                   *)
FromJson(json) ==
  [f \in DOMAIN NewEmail |-> IF f \in DOMAIN json THEN json[f] ELSE NewEmail[f]]

-----------------------------------------------------------------------------
(* Actions. *)

NothingAsked == [from |-> None, reply_to |-> None, to |-> <<>>, cc |-> <<>>, bcc |-> <<>>,
                 headers |-> <<>>]

Call == calls < MaxCalls /\ calls' = calls + 1

Rest == UNCHANGED <<path, body, wires>>

(* Email's setters for addresses and headers *)
SetAddress(field, s) ==
  /\ Call /\ path = "building"
  /\ email' = WithAddress(email, field, s)
  /\ asked' = [asked EXCEPT ![field] = s]
  /\ Rest

AddRecipient(field, s) ==
  /\ Call /\ path = "building"
  /\ email' = WithRecipient(email, field, s)
  /\ asked' = [asked EXCEPT ![field] = Append(@, s)]
  /\ Rest

ToMany(list) ==
  /\ Call /\ path = "building"
  /\ email' = WithMany(email, list)
  /\ asked' = [asked EXCEPT !.to = @ \o list]
  /\ Rest

AddHeader(h) ==
  /\ Call /\ path = "building"
  /\ email' = WithHeader(email, h)
  /\ asked' = [asked EXCEPT !.headers = Append(@, h)]
  /\ Rest

(* headers is a public field: a caller may push to it past the setter.      *)
PushHeader(h) ==
  /\ Call /\ path = "building"
  /\ email' = [email EXCEPT !.headers = Append(@, h)]
  /\ asked' = [asked EXCEPT !.headers = Append(@, h)]
  /\ Rest

(* EmailBuilder's from and to answer the error, which ends it.              *)
BuilderAddress(field, s) ==
  /\ Call /\ path = "checked"
  /\ IF Parses(s)
       THEN /\ email' = IF field = "to" THEN WithRecipient(email, field, s)
                                        ELSE WithAddress(email, field, s)
            /\ asked' = [asked EXCEPT ![field] = IF field = "to" THEN Append(@, s) ELSE s]
            /\ UNCHANGED path
       ELSE path' = "refused" /\ UNCHANGED <<email, asked>>
  /\ UNCHANGED <<body, wires>>

(* EmailBuilder::build *)
BuilderDone ==
  /\ path = "checked"
  /\ path' = IF Valid(email) THEN "building" ELSE "refused"
  /\ UNCHANGED <<email, calls, asked, body, wires>>

(* The setters that keep what they are given.                               *)
SetField(field, value) ==
  /\ Call /\ path = "building"
  /\ email' = [email EXCEPT ![field] = value]
  /\ UNCHANGED asked
  /\ Rest

SetContent(field, value) ==
  /\ Call /\ path \in {"building", "checked"}
  /\ email' = [email EXCEPT ![field] = value]
  /\ UNCHANGED asked
  /\ Rest

AddReference(id) ==
  /\ Call /\ path = "building"
  /\ email' = [email EXCEPT !.references = Append(@, id)]
  /\ UNCHANGED asked
  /\ Rest

SetPriority(p) == SetField("priority", Clamped(p))

Attach(a) ==
  /\ Call /\ path \in {"building", "checked"}
  /\ email' = [email EXCEPT !.attachments = Append(@, a)]
  /\ UNCHANGED asked
  /\ Rest

Build ==
  \/ \E field \in {"from", "reply_to"}, s \in Inputs : SetAddress(field, s)
  \/ \E field \in {"to", "cc", "bcc"}, s \in Inputs : AddRecipient(field, s)
  \/ \E list \in Lists : ToMany(list)
  \/ \E h \in Headers : AddHeader(h) \/ PushHeader(h)
  \/ \E field \in {"from", "to"}, s \in Inputs : BuilderAddress(field, s)
  \/ BuilderDone
  \/ \E field \in {"message_id", "in_reply_to"}, id \in Ids : SetField(field, id)
  \/ \E id \in Ids : AddReference(id)
  \/ \E s \in Subjects : SetContent("subject", s)
  \/ \E field \in {"text", "html"} : SetContent(field, TRUE)
  \/ \E p \in Levels : SetPriority(p)
  \/ \E a \in Attachments : Attach(a)

(* An email to one recipient, as the canned messages and send_text,         *)
(* send_html and send_template make it.                                     *)
Begun(s, subject, text, html) ==
  [WithRecipient(NewEmail, "to", s) EXCEPT !.subject = subject, !.text = text, !.html = html]

Fresh == path = "building" /\ calls = 0 /\ email = NewEmail

(* welcome_email, password_reset_email, notification_email *)
Canned(s, subject) ==
  /\ Fresh
  /\ email' = Begun(s, subject, TRUE, TRUE)
  /\ asked' = [NothingAsked EXCEPT !.to = <<s>>]
  /\ UNCHANGED <<calls, path, body, wires>>

(* send_text, send_html *)
SendSimple(s, subject, html) ==
  /\ Fresh
  /\ email' = Begun(s, subject, ~html, html)
  /\ asked' = [NothingAsked EXCEPT !.to = <<s>>]
  /\ path' = "direct" /\ body' = ApplyDefaults(email')
  /\ UNCHANGED <<calls, wires>>

(* send_template: there may be no engine or no such template, to must       *)
(* parse, and a template may lack any of its parts.                         *)
SendTemplate(s, subject, text, html) ==
  /\ Fresh
  /\ \/ /\ path' = "refused"
        /\ UNCHANGED <<email, asked, body>>
     \/ /\ Parses(s)
        /\ email' = Begun(s, subject, text, html)
        /\ asked' = [NothingAsked EXCEPT !.to = <<s>>]
        /\ path' = "direct" /\ body' = ApplyDefaults(email')
  /\ UNCHANGED <<calls, wires>>

(* Mailer::send *)
Send ==
  /\ path = "building"
  /\ path' = "direct" /\ body' = ApplyDefaults(email)
  /\ UNCHANGED <<email, calls, asked, wires>>

(* EmailQueue::enqueue, for either backend *)
Enqueue(queue) ==
  /\ path = "building"
  /\ path' = queue
  /\ body' = IF queue = "redis" THEN ToJson(Stamped(email)) ELSE Stamped(email)
  /\ UNCHANGED <<email, calls, asked, wires>>

(* One attempt of send_with_retry, or one delivery of the job, by whichever *)
(* transport; RedisBackend stores the job again before the next delivery.   *)
Attempt ==
  /\ path \in {"direct", "memory", "redis"} /\ Len(wires) < MaxAttempts
  /\ LET e == CASE path = "direct" -> body
                [] path = "memory" -> SendShared(body)
                [] path = "redis"  -> SendShared(FromJson(body))
     IN  wires' = Append(wires, [t \in Transports |-> Wire(t, e)])
  /\ body' = IF path = "redis" THEN ToJson(FromJson(body)) ELSE body
  /\ UNCHANGED <<email, calls, asked, path>>

(* An Email, or an EmailBuilder that was given its subject and its text.    *)
Init ==
  /\ \/ path = "building" /\ email = NewEmail
     \/ /\ path = "checked"
        /\ \E s \in Subjects : email = [NewEmail EXCEPT !.subject = s, !.text = TRUE]
  /\ calls = 0 /\ asked = NothingAsked /\ body = None /\ wires = <<>>

Next ==
  \/ Build
  \/ \E s \in Inputs, subject \in Subjects : Canned(s, subject)
  \/ \E s \in Inputs, subject \in Subjects, html \in BOOLEAN : SendSimple(s, subject, html)
  \/ \E s \in Inputs, subject \in Subjects \cup {None}, text, html \in BOOLEAN :
       SendTemplate(s, subject, text, html)
  \/ Send
  \/ \E queue \in {"memory", "redis"} : Enqueue(queue)
  \/ Attempt

Spec == Init /\ [][Next]_vars

-----------------------------------------------------------------------------
(* Properties. *)

Delivered == (UNION {{wires[i][t] : t \in Transports} : i \in DOMAIN wires}) \ {None}

Given(list) == [i \in DOMAIN list |-> Address(list[i])]

Values(list, n) ==
  LET upto[i \in 0 .. Len(list)] ==
        IF i = 0 THEN <<>>
        ELSE IF Key(list[i].name) = Key(n) THEN upto[i - 1] \o list[i].values ELSE upto[i - 1]
  IN  upto[Len(list)]

IdsOf(list, n) == [i \in DOMAIN Values(list, n) |-> Values(list, n)[i].id]

(* The email keeps its types: no address that does not parse gets into it,  *)
(* and its priority is one of the five levels.                              *)
TypeOK ==
  /\ path \in {"building", "checked", "direct", "memory", "redis", "refused"}
  /\ calls \in 0 .. MaxCalls /\ Len(wires) <= MaxAttempts
  /\ \A a \in Senders(email) \cup Recipients(email) : WellFormed(a.email)
  /\ email.priority \in {None} \cup 1 .. 5
  /\ email.invalid_addresses \subseteq Inputs /\ email.invalid_headers \subseteq Headers
  /\ \A w \in Delivered : w.from # None /\ w.to \o w.cc \o w.bcc # <<>>

(* A message that leaves is from and to exactly those the caller named, in  *)
(* their order and in their fields, or from the defaults where it named     *)
(* nobody ("so a caller never sends to fewer recipients than it asked for   *)
(* without a signal"): a malformed address stops the whole message, even    *)
(* if a default takes its place.                                            *)
NobodyDropped ==
  \A w \in Delivered :
    /\ w.from = IF asked.from = None THEN DefaultFrom ELSE Address(asked.from)
    /\ w.reply_to = IF asked.reply_to = None THEN DefaultReplyTo ELSE Address(asked.reply_to)
    /\ w.to = Given(asked.to) /\ w.cc = Given(asked.cc) /\ w.bcc = Given(asked.bcc)
    /\ \A s \in Range(asked.to \o asked.cc \o asked.bcc) : Parses(s)

(* What the caller gave and its priority implies, as one list of headers.   *)
GivenHeaders == [i \in DOMAIN asked.headers |->
                   Header(asked.headers[i].name, asked.headers[i].value)]
                \o PriorityHeaders(email)

ReferenceIds == [i \in DOMAIN email.references |-> email.references[i].id]

(* Of the values given under one name, those that leave: lettre's builder,  *)
(* behind SMTP and the raw path of SES, keeps the last.                     *)
Surviving(t, values) ==
  IF t \in {"sendgrid", "mailgun"} \/ values = <<>> THEN values ELSE << values[Len(values)] >>

(* A message that leaves carries its ids, subject, bodies and every         *)
(* attachment.  The two HTTP transports carry every value of every header   *)
(* the caller gave or its priority implies, in order, and every reference   *)
(* ("combined, not dropped"); SMTP and raw SES carry the last of each name, *)
(* whatever its case, so a priority is never dropped.  Only Mailgun's form  *)
(* names a header twice.                                                   *)
ContentCarried ==
  \A i \in DOMAIN wires : \A t \in Transports : wires[i][t] # None =>
    LET w == wires[i][t]
    IN  /\ \A k \in DOMAIN GivenHeaders :
             Values(w.headers, GivenHeaders[k].name)
               = Surviving(t, Values(GivenHeaders, GivenHeaders[k].name))
        /\ \A field \in {"message_id", "in_reply_to"} : email[field] # None =>
             IdsOf(w.headers, IF field = "message_id" THEN "Message-ID" ELSE "In-Reply-To")
               = << email[field].id >>
        /\ IdsOf(w.headers, "References") = Surviving(t, ReferenceIds)
        /\ w.subject = WireSubject(email.subject)
        /\ (w.text = "given") = email.text /\ (w.html = "given") = email.html
        /\ \A f \in Files :
             Cardinality({k \in DOMAIN w.parts : w.parts[k].file = f.file})
               = Cardinality({k \in DOMAIN email.attachments : email.attachments[k].file = f.file})
        /\ t # "mailgun" => \A k, l \in DOMAIN w.headers :
                             Key(w.headers[k].name) = Key(w.headers[l].name) => k = l

(* Through the queue, each delivery of a job hands over what Mailer::send   *)
(* would have, or is refused where that is, but for the Message-ID the job  *)
(* was given when it was enqueued, the same in all of them ("every retry of *)
(* this job carries the same id").                                          *)
PathsAgree ==
  LET identified == IF path = "direct" \/ email.message_id # None THEN email
                    ELSE [email EXCEPT !.message_id = Minted]
  IN  \A i \in DOMAIN wires : \A t \in Transports :
        wires[i][t] = Wire(t, ApplyDefaults(identified))
=============================================================================
