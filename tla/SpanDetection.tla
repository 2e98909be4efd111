---------------------------- MODULE SpanDetection ----------------------------
(***************************************************************************)
(* How REDACT finds PII in a line and rewrites it: src/src/detect.py (the  *)
(* ensemble, the field gate, the schema-trust excision), fields.py and the *)
(* span functions of anonymize.py, as operators.                           *)
(*                                                                         *)
(* A line is a sequence of cells, each standing for a stretch of text that *)
(* the code tells apart only by what recognises it:                        *)
(*   "k1" "k2"  a field name        "eq"  the sign =                       *)
(*   "sp"       white space         "at"  the sign @                       *)
(*   "ip"       an IP address       "ss"  a social security number         *)
(*   "nm"       a name the NER model knows                                 *)
(*   "fu"       a first and a last name run together (flattened_names.py)  *)
(*   "wd"       any other word      "no"  a number that is no PII          *)
(*   "he"       a high-entropy token                                       *)
(*   "lab"      what follows the second label of a host name, as .uk does  *)
(*   "tag"      a syslog tag with its colon                                *)
(*   "auth" "sess" "dhcp"  the wording of a message before a user and an   *)
(*              address (sshd), a user (su, systemd-logind), an address    *)
(*              (dhclient, NetworkManager)                                 *)
(* A span [type, s, e] is a stretch of positions, from s up to but not     *)
(* including e.  CREDIT_CARD and MRN are found as "ss" and "ip" are, by    *)
(* one pattern on one token, and have no cell of their own.  No word of a  *)
(* line is part of two e-mail addresses.  Left out are CloudTrail's JSON,  *)
(* and of syslog the messages of cron, of Wi-Fi and of failing units.      *)
(***************************************************************************)
EXTENDS Integers, Sequences, FiniteSets, FiniteSetsExt, SequencesExt

Word == {"k1", "k2", "nm", "fu", "wd", "no", "he", "auth", "sess", "dhcp"}
Alphabetic == (Word \ {"no"}) \cup {"tag", "lab"}
Cell == Word \cup {"eq", "sp", "at", "ip", "ss", "lab", "tag"}

Span(type, s, e) == [type |-> type, s |-> s, e |-> e]

\* anonymize._overlaps
Overlaps(a, b) == a.s < b.e /\ b.s < a.e

Cells(h) == h.s .. h.e - 1
IsCell(t, i, c) == i \in DOMAIN t /\ t[i] = c

\* The elements of a sequence at the positions of a set.
Chosen(t, S) == FlattenSeq([i \in DOMAIN t |-> IF i \in S THEN <<t[i]>> ELSE <<>>])

\* Spans of one type, from left to right.
Sorted(hits) ==
    [n \in 1 .. Cardinality(hits) |->
        CHOOSE h \in hits :
            Cardinality({g \in hits : g.s < h.s \/ (g.s = h.s /\ g.e < h.e)}) = n - 1]

\* sorted(): a sequence arranged by an order of its positions.
Arranged(hits, order) ==
    [n \in DOMAIN hits |->
        hits[CHOOSE i \in DOMAIN hits :
                Cardinality({j \in DOMAIN hits : <<j, i>> \in order}) = n - 1]]

-----------------------------------------------------------------------------
(* The four recognisers                                                    *)

\* The regular expression ends an address behind the second label of its host.
\* What stands before @ may itself be an IP address or a number.
AtSigns(t) == {j \in DOMAIN t : /\ t[j] = "at"
                                /\ j > 1 /\ t[j - 1] \in Word \cup {"ip", "ss"}
                                /\ j < Len(t) /\ t[j + 1] \in Word}
Emails(t) == {Span("EMAIL", j - 1, j + 2) : j \in AtSigns(t)}

\* Presidio takes the whole host: an address with more labels is longer.
LongEmails(t) == {Span("EMAIL", j - 1, j + 3) :
                    j \in {i \in AtSigns(t) : IsCell(t, i + 2, "lab")}}
NerEmails(t) == {h \in Emails(t) : ~IsCell(t, h.e, "lab")} \cup LongEmails(t)

OneCell(t, c, type) == {Span(type, i, i + 1) : i \in {j \in DOMAIN t : t[j] = c}}
Addresses(t) == OneCell(t, "ip", "IP")
Numbers(t) == OneCell(t, "ss", "SSN")

\* One pattern after the other, in the order of REGEX_PATTERNS.
ScanRegex(t) == Sorted(Numbers(t)) \o Sorted(Emails(t)) \o Sorted(Addresses(t))

\* Names with nothing but white space between them are one person.
Names(t) ==
    LET Run(i, j) == i <= j /\ t[i] = "nm" /\ t[j] = "nm"
                     /\ \A k \in i .. j : t[k] \in {"nm", "sp"}
    IN {Span("PERSON", ij[1], ij[2] + 1) :
          ij \in {x \in (DOMAIN t) \X (DOMAIN t) :
                    /\ Run(x[1], x[2])
                    /\ \A i \in 1 .. x[1] : Run(i, x[2]) => i = x[1]
                    /\ \A j \in x[2] .. Len(t) : Run(x[1], j) => j = x[2]}}

\* The model takes a field name whose value is missing for a person: the
\* behaviour that detect.py:635-662 reports.  (A name is a person without it.)
Dangling(t) == {Span("PERSON", i, i + 2) :
                  i \in {j \in DOMAIN t : /\ t[j] \in Word \ {"nm"}
                                          /\ IsCell(t, j + 1, "eq")
                                          /\ j + 1 = Len(t) \/ IsCell(t, j + 2, "sp")}}

\* The model also knows addresses and numbers.  A line without letters and
\* digits has none of these, so the early return changes nothing.
ScanNer(t) ==
    Sorted(Names(t) \cup Dangling(t)) \o Sorted(NerEmails(t))
    \o Sorted(Numbers(t)) \o Sorted(Addresses(t))

\* A token runs over = and the dots of a host, up to white space, @ or a tag.
Token(t, i, j) ==
    LET InToken(k) == k \in DOMAIN t /\ t[k] \notin {"sp", "at", "tag"}
    IN i <= j /\ (\A k \in i .. j : InToken(k)) /\ ~InToken(i - 1) /\ ~InToken(j + 1)

ScanEntropy(t) ==
    Sorted({Span("HIGH_ENTROPY", x[1], x[2] + 1) :
              x \in {y \in (DOMAIN t) \X (DOMAIN t) :
                       Token(t, y[1], y[2]) /\ \E k \in y[1] .. y[2] : t[k] = "he"}})

\* A token before @ belongs to an address, not to a person.
ScanFlattened(t) ==
    Sorted({Span("PERSON", i, i + 1) :
              i \in {j \in DOMAIN t : t[j] = "fu" /\ ~IsCell(t, j + 1, "at")}})

\* detect_all
DetectAll(t) == ScanRegex(t) \o ScanNer(t) \o ScanEntropy(t) \o ScanFlattened(t)

-----------------------------------------------------------------------------
(* Fields                                                                  *)

Trim(v) ==
    LET solid == {i \in DOMAIN v : v[i] # "sp"}
    IN IF solid = {} THEN <<>> ELSE SubSeq(v, Min(solid), Max(solid))

\* _extract_kv_pairs: a value runs up to the next key.  A dictionary keeps a
\* repeated key where it came first, with the value that came last.
KvPairs(t) ==
    LET keys == {i \in DOMAIN t : t[i] \in Word /\ IsCell(t, i + 1, "eq")}
        first == {i \in keys : \A j \in keys : t[j] = t[i] => i <= j}
        Value(name) ==
            LET i == Max({j \in keys : t[j] = name})
                next == Min({j \in keys : j > i} \cup {Len(t) + 1})
            IN Trim(SubSeq(t, i + 2, next - 1))
        names == Chosen(t, first)
    IN [n \in DOMAIN names |-> [name |-> names[n], value |-> Value(names[n])]]

OneField(name, value) == <<[name |-> name, value |-> <<value>>]>>

\* Behind the tag, a message of a known wording has a user, an address or both
\* at fixed places, and any other message is read as key=value pairs.
SyslogFields(t) ==
    LET rest == Trim(Tail(t))
        Said(wording, n) ==
            /\ Len(rest) >= n + 1 /\ rest[1] = wording
            /\ \A i \in 2 .. n + 1 : rest[i] = "sp" <=> i % 2 = 0
            /\ Len(rest) = n + 1 \/ IsCell(rest, n + 2, "sp")
    IN IF ~IsCell(t, 1, "tag") THEN <<>> ELSE
       CASE Said("auth", 4) -> OneField("user", rest[3]) \o OneField("src_ip", rest[5])
         [] Said("sess", 2) -> OneField("user", rest[3])
         [] Said("dhcp", 2) -> OneField("src_ip", rest[3])
         [] OTHER -> KvPairs(rest)

ExtractFields(logType, t) ==
    CASE logType = "windows_event" -> KvPairs(t)
      [] logType = "syslog" -> SyslogFields(t)
      [] OTHER -> <<>>

\* text.find(value, from), or 0.
FindFrom(t, v, from) ==
    LET at == {i \in from .. Len(t) - Len(v) + 1 : SubSeq(t, i, i + Len(v) - 1) = v}
    IN IF at = {} THEN 0 ELSE Min(at)

\* Faulty variant: no second search from the start of the line.
PlaceAhead(t, v, cursor) == FindFrom(t, v, cursor)

\* Where a value is taken to be: it is looked for behind the one before it,
\* then from the start of the line.
Place(t, v, cursor) ==
    IF FindFrom(t, v, cursor) # 0 THEN FindFrom(t, v, cursor) ELSE FindFrom(t, v, 1)

\* The next field of the loop, after those in acc; an empty value, and one
\* that is not in the line, is passed over.
Placed(t, acc, f) ==
    LET at == Place(t, f.value, acc.cursor)
    IN IF f.value = <<>> \/ at = 0
       THEN acc
       ELSE [cursor |-> at + Len(f.value),
             found |-> Append(acc.found, [field |-> f, s |-> at, e |-> at + Len(f.value)])]

Located(t, fields) ==
    LET after[n \in 0 .. Len(fields)] ==
            IF n = 0 THEN [cursor |-> 1, found |-> <<>>]
            ELSE Placed(t, after[n - 1], fields[n])
    IN after[Len(fields)].found

-----------------------------------------------------------------------------
(* The field gate                                                          *)

\* What is left of a line without some positions, and a hit on it in the
\* line's own positions: the offset of the chunk it starts in, for both ends.
Kept(t, cut) == Chosen([i \in DOMAIN t |-> i], DOMAIN t \ cut)
Spliced(t, kept) == [i \in DOMAIN kept |-> t[kept[i]]]

RemapHit(h, kept) == Span(h.type, kept[h.s], kept[h.s] + (h.e - h.s))
RemapHits(hits, kept) == [i \in DOMAIN hits |-> RemapHit(hits[i], kept)]

\* Faulty variant: the value alone is cut out, its field name stays.
ValueOnly(t, at) == Cells(at)

\* A value is cut out with the key= in front of it.
WithKey(t, at) ==
    IF IsCell(t, at.s - 1, "eq") /\ at.s > 2 /\ t[at.s - 2] \in Word
    THEN at.s - 2 .. at.e - 1
    ELSE Cells(at)

\* The values of a line's fields, and those with a regex hit in them.
FieldValues(t, logType) == ToSet(Located(t, ExtractFields(logType, t)))
Covered(values, hits) == {v \in values : \E h \in ToSet(hits) : Overlaps(h, v)}

\* Faulty variant: one value with a regex hit in it and the whole line is
\* kept from the model, whatever the other fields hold.
GateLine(t, values, regexHits) ==
    LET covered == Covered(values, regexHits)
    IN [skip |-> covered # {},
        cut |-> UNION {WithKey(t, v) : v \in covered}]

\* build_ner_candidate: the positions kept from the model; skip when no value
\* is left that has letters.
Gate(t, values, regexHits) ==
    LET covered == Covered(values, regexHits)
        lettered == {v \in values \ covered : \E i \in Cells(v) : t[i] \in Alphabetic}
    IN [skip |-> covered # {} /\ lettered = {},
        cut |-> UNION {WithKey(t, v) : v \in covered}]

ScanNerOn(t, kept) == RemapHits(ScanNer(Spliced(t, kept)), kept)

ScanNerGated(t, regexHits, gate) ==
    IF regexHits = <<>> THEN ScanNer(t)
    ELSE IF gate.skip THEN <<>>
    ELSE ScanNerOn(t, Kept(t, gate.cut))

\* detect_all_field_gated
DetectGatedWith(t, logType, regexHits) ==
    regexHits
    \o ScanNerGated(t, regexHits, Gate(t, FieldValues(t, logType), regexHits))
    \o ScanEntropy(t) \o ScanFlattened(t)

DetectGated(t, logType) == DetectGatedWith(t, logType, ScanRegex(t))

-----------------------------------------------------------------------------
(* Schema trust                                                            *)

CanonicalTypes == {"PERSON", "EMAIL", "IP", "SSN", "CREDIT_CARD", "MRN"}
SupportedLogTypes == {"windows_event", "syslog"}

\* str.upper, of the spellings a file may use.
Upper(type) ==
    CASE type = "person" -> "PERSON" [] type = "ip" -> "IP" [] OTHER -> type

\* The sections of a file, but for those that only its reader uses.
Sections(file) == DOMAIN file \ {"_comment"}

\* Faulty variant: any type can be declared.
AnyType(file) == Sections(file) \subseteq SupportedLogTypes

\* load_schema_trust: a section must be of a log type from whose lines a value
\* can be cut, and declare types that the policy knows.  A file that is no JSON
\* is refused as well.
TrustAccepted(file) ==
    /\ Sections(file) \subseteq SupportedLogTypes
    /\ \A l \in Sections(file) : \A f \in DOMAIN file[l] : Upper(file[l][f]) \in CanonicalTypes

\* What it then declares for a log type; no file declares nothing.
TrustFor(file, logType) ==
    IF logType \in Sections(file)
    THEN [f \in DOMAIN file[logType] |-> Upper(file[logType][f])]
    ELSE <<>>

\* The declared fields of a line, where they are found.
Declared(t, logType, trust) ==
    LET fields == ExtractFields(logType, t)
    IN Located(t, Chosen(fields, {n \in DOMAIN fields : fields[n].name \in DOMAIN trust}))

TrustSpan(at, trust) == Span(trust[at.field.name], at.s, at.e)
TrustSpans(declared, trust) == [i \in DOMAIN declared |-> TrustSpan(declared[i], trust)]

\* The rest of the line goes through the field gate as a line of its own.
DetectOn(t, logType, kept) == RemapHits(DetectGated(Spliced(t, kept), logType), kept)

\* detect_all_schema_aware: declared values are spans without being looked at.
DetectAround(t, logType, spans) ==
    spans \o DetectOn(t, logType, Kept(t, UNION {Cells(h) : h \in ToSet(spans)}))

DetectSchemaAware(t, logType, trust) ==
    DetectAround(t, logType, TrustSpans(Declared(t, logType, trust), trust))

-----------------------------------------------------------------------------
(* Rewriting                                                               *)

\* sorted() keeps the order of spans with equal keys, with reverse=True too.
FromLeft(hits) ==
    Arranged(hits, {p \in (DOMAIN hits) \X (DOMAIN hits) :
                      \/ hits[p[1]].s < hits[p[2]].s
                      \/ hits[p[1]].s = hits[p[2]].s /\ p[1] < p[2]})
FromRight(hits) ==
    Arranged(hits, {p \in (DOMAIN hits) \X (DOMAIN hits) :
                      \/ hits[p[1]].s > hits[p[2]].s
                      \/ hits[p[1]].s = hits[p[2]].s /\ p[1] < p[2]})

\* dedup_spans: of overlapping spans of one type the first one is kept.
Deduped(kept, h) ==
    IF \E k \in ToSet(kept) : k.type = h.type /\ Overlaps(h, k)
    THEN kept
    ELSE Append(kept, h)

DedupSpans(hits) ==
    LET ordered == FromLeft(hits)
        kept[n \in 0 .. Len(ordered)] ==
            IF n = 0 THEN <<>> ELSE Deduped(kept[n - 1], ordered[n])
    IN kept[Len(ordered)]

\* The placeholder or token that stands for a span, two cells long.
Placeholder == <<0, 0>>

\* One span replaced where its offsets now point, and what stood there.  A
\* type that no set of the policy has stays as it is.
Replaced(acc, h) ==
    LET n == Len(acc.out)
    IN IF h.type \notin CanonicalTypes THEN acc ELSE
       [out |-> SubSeq(acc.out, 1, Min({h.s - 1, n})) \o Placeholder
                \o SubSeq(acc.out, h.e, n),
        seen |-> Append(acc.seen, SubSeq(acc.out, h.s, Min({h.e - 1, n})))]

\* A line's positions with spans replaced one after the other: what is left
\* of them, and what each span's transformation was given.
Applied(t, spans) ==
    LET after[n \in 0 .. Len(spans)] ==
            IF n = 0 THEN [out |-> [i \in DOMAIN t |-> i], seen |-> <<>>]
            ELSE Replaced(after[n - 1], spans[n])
    IN after[Len(spans)]

\* Faulty variant: the spans are applied from the left.
RewriteFromLeft(t, hits) == Applied(t, DedupSpans(hits))

\* _apply_right_to_left
Rewrite(t, hits) == Applied(t, FromRight(DedupSpans(hits)))

=============================================================================
