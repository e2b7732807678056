--------------------------- MODULE ResumeContract ---------------------------
(* The contract a resume has to keep (validator.py) and the bullets the      *)
(* locator finds in it (locator.py), as operators.                           *)
(*                                                                           *)
(* A resume is a sequence of tokens: "S" a heading of experience or          *)
(* projects, "O" any other heading, "h" and "l" the line of an entry header, *)
(* "i" \resumeItem, "c" \cvline, "I" \item, "end" what ends a list of items, *)
(* "{" and "}" the braces that are not escaped, anything else plain text.    *)
EXTENDS Integers, SequencesExt, Selection

Headings == {"S", "O"}
EntryHeaders == {"h", "l"}
\* Lines of which MAX_ENTRY_ID_LENGTH leaves no more than words they share.
LongHeaders == {"l"}

\* Where a body stops that is not in braces.
Boundaries == {"i", "c", "I", "end"}

\* The places in I, as a search from front to back meets them.
InOrder(text, I) == Kept([k \in DOMAIN text |-> k], I)

\* Mutant of Matches: the next closing brace, whatever was opened before it.
MatchesNext(text, o, e) ==
  /\ text[o] = "{" /\ text[e] = "}"
  /\ \A k \in o .. e - 1 : text[k] # "}"

\* find_matching_brace: the brace at o is closed by the one at e.
Matches(text, o, e) ==
  LET opened(k) == Cardinality({x \in o .. k : text[x] = "{"})
      closed(k) == Cardinality({x \in o .. k : text[x] = "}"})
  IN /\ text[o] = "{" /\ text[e] = "}"
     /\ opened(e) = closed(e)
     /\ \A k \in o .. e - 1 : opened(k) > closed(k)

\* The body of the first group in braces at or after k, if it closes before
\* end.  A span is [from, to), and next is where the search goes on.
Group(text, k, end) ==
  LET opening == {o \in k .. end - 1 : text[o] = "{" /\ \A x \in k .. o - 1 : text[x] # "{"}
      pairs == {p \in opening \X (k .. end - 1) : p[1] < p[2] /\ Matches(text, p[1], p[2])}
  IN {[from |-> p[1] + 1, to |-> p[2], next |-> p[2] + 1] : p \in pairs}

\* ... and of the second one, behind the first.
SecondGroup(text, k, end) == UNION {Group(text, g.next, end) : g \in Group(text, k, end)}

\* What stands behind the item at k and before the next boundary, if anything.
Plain(text, k, end) ==
  LET stop == Min({e \in k + 2 .. end - 1 : text[e] \in Boundaries} \cup {end})
  IN {[from |-> k + 1, to |-> e, next |-> e] : e \in {stop} \ {k + 1}}

\* _resolve_itemize_item_body: a group right behind the item, or plain text.
ItemBody(text, k, end) ==
  LET group == {g \in Group(text, k, end) : g.from = k + 2}
  IN IF group = {} THEN Plain(text, k, end) ELSE group

\* RESUME_ITEM_RE and CVLINE_RE want a brace right behind the macro.
IsBullet(text, k) ==
  \/ text[k] = "I"
  \/ text[k] \in {"i", "c"} /\ k < Len(text) /\ text[k + 1] = "{"

\* _resolve_body_span: the set of the body, or none.
BodySpan(text, k, end) ==
  CASE text[k] = "i" -> Group(text, k, end)
    [] text[k] = "c" -> SecondGroup(text, k, end)
    [] OTHER -> ItemBody(text, k, end)

\* Sections start behind their heading and end at the next one.
Sections(text) ==
  LET heads == InOrder(text, {k \in DOMAIN text : text[k] \in Headings})
  IN [n \in DOMAIN heads |->
        [tailorable |-> text[heads[n]] = "S", from |-> heads[n] + 1,
         end |-> IF n = Len(heads) THEN Len(text) + 1 ELSE heads[n + 1]]]

Headers(text, s) == {k \in s.from .. s.end - 1 : text[k] \in EntryHeaders}
BulletStarts(text, s) == {k \in s.from .. s.end - 1 : IsBullet(text, k)}

\* _check_bullet_brace_balance looks no further than the section.
Balanced(text, s) ==
  \A k \in BulletStarts(text, s) :
    text[k] # "I" => BodySpan(text, k, s.end) # {}

\* _check_section_structure
Structured(text, s) ==
  /\ \A k \in BulletStarts(text, s) : \E h \in Headers(text, s) : h < k
  /\ Balanced(text, s)

\* validate_resume_tex without its compile check.
Conforms(text) ==
  LET tailorable == {s \in ToSet(Sections(text)) : s.tailorable}
  IN tailorable # {} /\ \A s \in tailorable : Structured(text, s)

\* One bullet after the other: what has no body is passed over, and so is what
\* stands within a body that was found before.
InTurn(bodies, from, end) ==
  LET found[k \in from - 1 .. end - 1] ==
        IF k = from - 1 THEN <<>>
        ELSE LET done == found[k - 1]
             IN IF bodies[k] = {} \/ \E n \in DOMAIN done : k < done[n].next THEN done
                ELSE Append(done, CHOOSE b \in bodies[k] : TRUE)
  IN found[end - 1]

\* _extract_bullets
Bullets(text, from, end) ==
  InTurn([k \in from .. end - 1 |-> IF IsBullet(text, k) THEN BodySpan(text, k, end) ELSE {}],
         from, end)

\* _dedupe_by_line: the lines with a header, in order.
HeaderLines(text, s) == InOrder(text, Headers(text, s))

\* _build_entry_id: the section, the words of the header and the number of the
\* entry, which is cut off behind a long line (0); then that of the bullet.
BulletId(text, s, header, n, b) ==
  <<s.from, IF text[header] \in LongHeaders THEN 0 ELSE n, b>>

\* _walk_entries: from behind each header to the next one.
EntryBullets(text, s) ==
  LET headers == HeaderLines(text, s)
      end(n) == IF n = Len(headers) THEN s.end ELSE headers[n + 1]
      entry(n) ==
        LET spans == Bullets(text, headers[n] + 1, end(n))
        IN [b \in DOMAIN spans |-> [id |-> BulletId(text, s, headers[n], n, b),
                                    from |-> spans[b].from, to |-> spans[b].to]]
      upto[n \in 0 .. Len(headers)] == IF n = 0 THEN <<>> ELSE upto[n - 1] \o entry(n)
  IN upto[Len(headers)]

\* build_bullet_manifest: the bullets of the tailorable sections, in order.
Manifest(text) ==
  LET sections == Sections(text)
      upto[n \in 0 .. Len(sections)] ==
        IF n = 0 THEN <<>>
        ELSE IF sections[n].tailorable THEN upto[n - 1] \o EntryBullets(text, sections[n])
        ELSE upto[n - 1]
  IN upto[Len(sections)]

=============================================================================
