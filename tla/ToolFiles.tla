------------------------------ MODULE ToolFiles ------------------------------
(***************************************************************************)
(* The files of the workspace as the tools of an agent handle them:        *)
(* fs.read_file, fs.write_file and fs.edit_file of                         *)
(* psa/plugins/core/fs_plugin.ts, and the catalogue of skills that         *)
(* skill_plugin.ts keeps of some of them.  Each tool reads and writes with *)
(* synchronous calls, so a call is one step; the user edits in between.    *)
(***************************************************************************)
EXTENDS Integers, Sequences, SequencesExt, FiniteSetsExt

CONSTANTS
  Written,       \* texts a call or the user writes; "n" ends a line, "r" is a carriage return
  Targets, Replacements,  \* texts an edit looks for and puts in
  Spots,         \* where skills may be, in the order of the scan: [base, text]
  Titles,        \* names a skill's frontmatter may give, NoTitle among them
  NoTitle,       \* no name, or one that reads as 0 or false
  Numeric,       \* those that read as another number or as true
  MaxVersions    \* bound: versions of the skills' texts

\* A text is a sequence of characters.
ASSUME FilesAssumption == \A t \in Written \cup Targets \cup Replacements : t \in Seq(ToSet(t))

VARIABLES
  exists, content,  \* whether a file of the workspace exists, and its text
  page,     \* what fs.read_file last showed
  edited,   \* the edit, when it was the last call: [was, target, with, now]
  skills,   \* spot -> the skill's file: [title, version], or NoFile
  version,  \* versions written
  cache,    \* SkillPlugin.cache: name -> [spot, file]
  scanned,  \* the files as the last scan saw them
  loaded    \* the answer of skill.load, until something else happens

fsVars == <<exists, content, page, edited>>
skillVars == <<skills, version, cache, scanned, loaded>>

NoFile == [absent |-> TRUE]
There(f) == f # NoFile

FSInit == exists = FALSE /\ content = << >> /\ page = << >> /\ edited = << >>

-----------------------------------------------------------------------------
(* fs.read_file, fs.write_file, fs.edit_file *)

\* split(/\r?\n/): a carriage return before the end of a line goes with it.
Ended(line) == IF line # << >> /\ Last(line) = "r" THEN Front(line) ELSE line

Lines(text) ==
  LET split[n \in 0..Len(text)] ==
        IF n = 0 THEN << << >> >>
        ELSE LET lines == split[n - 1]
             IN  IF text[n] = "n" THEN Front(lines) \o <<Ended(Last(lines)), << >>>>
                 ELSE Append(Front(lines), Append(Last(lines), text[n]))
  IN  split[Len(text)]

\* slice(start - 1, end).join("\n"); a line number 0 stands for none.
Page(text, startLine, endLine) ==
  LET lines == Lines(text)
      start == IF startLine = 0 THEN 1 ELSE startLine
      end == IF endLine = 0 \/ endLine > Len(lines) THEN Len(lines) ELSE endLine
      joined[k \in start..end] ==
        IF k = start THEN lines[k] ELSE joined[k - 1] \o <<"n">> \o lines[k]
  IN  IF start > end THEN << >> ELSE joined[end]

ReadFile(startLine, endLine) ==
  /\ exists
  /\ page' = Page(content, startLine, endLine)
  /\ edited' = << >>
  /\ UNCHANGED <<exists, content, skillVars>>

\* The user's editor writes as a call with overwrite does.
WriteFile(text, overwrite) ==
  /\ exists => overwrite
  /\ exists' = TRUE /\ content' = text /\ edited' = << >>
  /\ UNCHANGED <<page, skillVars>>

Places(text, target) ==
  {k \in 1..(Len(text) + 1 - Len(target)) : SubSeq(text, k, k + Len(target) - 1) = target}

\* split(target).length - 1: matches that do not overlap, from the left; an empty
\* target splits a text into its characters.
Occurrences(text, target) ==
  LET count[from \in 1..(Len(text) + 1)] ==
        LET places == {k \in Places(text, target) : k >= from}
        IN  IF places = {} THEN 0 ELSE 1 + count[Min(places) + Len(target)]
  IN  IF target = << >> THEN Len(text) - 1 ELSE count[1]

\* String.replace reads $$, $&, $` and $' in the replacement.
Letters == {"$", "&", "`", "'"}
Stands(c, before, target, after) ==
  CASE c = "$" -> <<"$">> [] c = "&" -> target [] c = "`" -> before [] c = "'" -> after

Expand(with, before, target, after) ==
  LET expanded[k \in 1..(Len(with) + 2)] ==
        IF k > Len(with) THEN << >>
        ELSE IF k < Len(with) /\ with[k] = "$" /\ with[k + 1] \in Letters
             THEN Stands(with[k + 1], before, target, after) \o expanded[k + 2]
             ELSE <<with[k]>> \o expanded[k + 1]
  IN  expanded[1]

Replace(text, target, with) ==
  LET k == Min(Places(text, target))
      before == SubSeq(text, 1, k - 1)
      after == SubSeq(text, k + Len(target), Len(text))
  IN  before \o Expand(with, before, target, after) \o after

\* Faulty: the first of several places is taken.
EditFirst(target, with) ==
  /\ exists /\ Places(content, target) # {}
  /\ content' = Replace(content, target, with)
  /\ edited' = [was |-> content, target |-> target, with |-> with, now |-> content']
  /\ UNCHANGED <<exists, page, skillVars>>

EditFile(target, with) ==
  /\ exists /\ Places(content, target) # {}
  /\ Occurrences(content, target) <= 1
  /\ content' = Replace(content, target, with)
  /\ edited' = [was |-> content, target |-> target, with |-> with, now |-> content']
  /\ UNCHANGED <<exists, page, skillVars>>

FSNext ==
  \/ \E from, to \in 0..2 : ReadFile(from, to)
  \/ \E text \in Written, overwrite \in BOOLEAN : WriteFile(text, overwrite)
  \/ \E with \in Replacements :
       /\ content \in Written   \* bound: the result of an edit is not edited again
       /\ \E target \in Targets \cup {page} : EditFile(target, with)

-----------------------------------------------------------------------------
(* skill.list, skill.load *)

SkillInit ==
  /\ skills = [s \in DOMAIN Spots |-> NoFile] /\ version = 0
  /\ cache = << >> /\ scanned = skills /\ loaded = << >>

\* frontmatter.name || the name of the file; a value that reads as a number or a
\* Boolean is one, and no name a caller gives equals it.
NameOf(s, f) == IF f.title = NoTitle THEN Spots[s] ELSE f.title

SkillWritten(s, title) ==
  /\ version < MaxVersions
  /\ version' = version + 1
  /\ skills' = [skills EXCEPT ![s] = [title |-> title, version |-> version']]
  /\ loaded' = << >>
  /\ UNCHANGED <<cache, scanned, fsVars>>

SkillRemoved(s) ==
  /\ There(skills[s])
  /\ skills' = [skills EXCEPT ![s] = NoFile]
  /\ loaded' = << >>
  /\ UNCHANGED <<version, cache, scanned, fsVars>>

\* cache.clear, then a set per file in the order of the scan: the last one stays.
Scan ==
  LET found == {s \in DOMAIN Spots : There(skills[s])}
      named(n) == {s \in found : NameOf(s, skills[s]) = n}
      names == {NameOf(s, skills[s]) : s \in found}
  IN  [n \in names |-> [spot |-> Max(named(n)), file |-> skills[Max(named(n))]]]

Rescan == cache' = Scan /\ scanned' = skills

ListSkills ==
  /\ Rescan /\ loaded' = << >>
  /\ UNCHANGED <<skills, version, fsVars>>

Answer(n) == IF n \in DOMAIN cache' \ Numeric
             THEN [name |-> n, answer |-> cache'[n]] ELSE [name |-> n]

\* Faulty: only an empty cache makes it look.
LoadOnce(n) ==
  /\ IF DOMAIN cache # {} THEN UNCHANGED <<cache, scanned>> ELSE Rescan
  /\ loaded' = Answer(n)
  /\ UNCHANGED <<skills, version, fsVars>>

\* A name the cache does not have is looked for once more.
LoadSkill(n) ==
  /\ IF n \in DOMAIN cache \ Numeric THEN UNCHANGED <<cache, scanned>> ELSE Rescan
  /\ loaded' = Answer(n)
  /\ UNCHANGED <<skills, version, fsVars>>

SkillNext ==
  \/ \E s \in DOMAIN Spots : SkillRemoved(s) \/ \E title \in Titles : SkillWritten(s, title)
  \/ ListSkills
  \/ \E n \in ToSet(Spots) \cup (Titles \ {NoTitle}) : LoadSkill(n)

FilesSpec == FSInit /\ SkillInit /\ [][FSNext \/ SkillNext]_<<fsVars, skillVars>>

-----------------------------------------------------------------------------
\* An edit that was accepted put the new text in the place of the old one and
\* changed nothing else, and the old text was nowhere else: unless it was empty, or
\* the new text has a dollar sign.
EditIsExact ==
  edited # << >> /\ edited.target # << >> /\ "$" \notin ToSet(edited.with) =>
    \E k \in Places(edited.was, edited.target) :
      LET before == SubSeq(edited.was, 1, k - 1)
          after == SubSeq(edited.was, k + Len(edited.target), Len(edited.was))
      IN  /\ edited.now = before \o edited.with \o after
          /\ Places(before, edited.target) \cup Places(after, edited.target) = {}

\* A skill that is loaded is what the last scan saw in the last file of its name,
\* and one that is not found has no file now: unless its name reads as a number.
SkillsFound ==
  loaded # << >> =>
    LET n == loaded.name
        files(in) == {s \in DOMAIN Spots : There(in[s]) /\ NameOf(s, in[s]) = n}
    IN  IF "answer" \in DOMAIN loaded
        THEN /\ files(scanned) # {}
             /\ loaded.answer.file = scanned[Max(files(scanned))]
        ELSE files(skills) = {} \/ n \in Numeric

\* A file tool does to a file what it says, and a skill is a file that was there.
FilesAnswerTruly == EditIsExact /\ SkillsFound
=============================================================================
