------------------------------ MODULE DnsParser ------------------------------
(***************************************************************************)
(* ParseDNS and parseDomainName of internal/parser/dns.go: the questions   *)
(* of a DNS message.                                                       *)
(*                                                                         *)
(* A message is how many of the twelve bytes of its header have come, its  *)
(* qdcount and its body, the bytes behind the header: body[i] is           *)
(* payload[11 + i].  The flags of the header do not steer the parser and   *)
(* are left out.  A name is the sequence of its labels, each a sequence of *)
(* bytes; the dots between them are left out, although in the code's text  *)
(* a dot within a label cannot be told from one between two.  A 16-bit     *)
(* number is the pair of its bytes.                                        *)
(***************************************************************************)
EXTENDS Integers, Sequences

HeaderSize == 12
Failed == [labels |-> <<>>, next |-> -1]   \* return "", -1
Nil == "nil"

Pair(body, i) == <<body[i], body[i + 1]>>
IsPointer(byte) == byte >= 192             \* length & 0xC0 == 0xC0

\* The body of the loop in parseDomainName, where name[i] is what the rest of the
\* loop gives when it goes on at i.  Of a pointer the first byte is skipped.
Read(body, name, at) ==
  LET length == body[at]
      end == at + length
  IN  CASE IsPointer(length) ->
             IF at = Len(body) THEN Failed ELSE [labels |-> <<>>, next |-> at + 1]
        [] length = 0 -> [labels |-> <<>>, next |-> at + 1]
        [] ~IsPointer(length) /\ length > 0 ->
             IF end > Len(body) \/ name[end + 1].next = -1 THEN Failed
             ELSE [labels |-> <<SubSeq(body, at + 1, end)>> \o name[end + 1].labels,
                   next |-> name[end + 1].next]

\* parseDomainName: the labels from start on, and where the name ends.  A name
\* that the body cuts off between two labels ends with the body.
parseDomainName(body, start) ==
  LET name[at \in 1 .. Len(body) + 1] ==
        IF at > Len(body) THEN [labels |-> <<>>, next |-> at] ELSE Read(body, name, at)
  IN  name[start]

\* Where ParseDNS is in the body, and what it has found so far
Begun == [questions |-> <<>>, next |-> 1]
GivenUp == [questions |-> <<>>, next |-> -1]

\* A question behind what is done: a name, a type and a class, and where the
\* next one begins.
Found(body, done, name, next) ==
  [questions |-> Append(done.questions, [name |-> name.labels,
                                         type |-> Pair(body, name.next),
                                         class |-> Pair(body, name.next + 2)]),
   next |-> next]
Complete(body, name) == name.next # -1 /\ name.next + 3 <= Len(body)

\* Mutants of NextQuestion: the class is not skipped; an incomplete question
\* ends the loop without failing.
NextQuestionEarly(body, done) ==
  LET name == parseDomainName(body, done.next)
  IN  IF done.next = -1 \/ ~Complete(body, name) THEN GivenUp
      ELSE Found(body, done, name, name.next + 2)
NextQuestionLenient(body, done) ==
  LET name == parseDomainName(body, done.next)
  IN  IF ~Complete(body, name) THEN done
      ELSE Found(body, done, name, name.next + 4)

\* The body of the loop in ParseDNS
NextQuestion(body, done) ==
  LET name == parseDomainName(body, done.next)
  IN  IF done.next = -1 \/ ~Complete(body, name) THEN GivenUp
      ELSE Found(body, done, name, name.next + 4)

ParseDNS(msg) ==
  LET after[n \in 0 .. msg.qdcount] ==
        IF n = 0 THEN Begun ELSE NextQuestion(msg.body, after[n - 1])
      result == after[msg.qdcount]
  IN  IF msg.head < HeaderSize \/ msg.qdcount = 0 \/ result.next = -1
      THEN Nil ELSE result.questions
=============================================================================
