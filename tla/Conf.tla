--------------------------------- MODULE Conf ---------------------------------
(***************************************************************************)
(* cmn/cmn_conf.c: cfg_get_key and cfg_get_key_with_len look a key up in a *)
(* section of an ini file, one line after the other.                       *)
(*                                                                         *)
(* A line is what the code tells apart: a section header, which may have a *)
(* '=' in it, a setting, or neither: a comment.  Names and keys stand for  *)
(* their case-insensitive, trimmed text; a value is the sequence of its    *)
(* characters.  Lines fit the line buffer, but not always the buffers that *)
(* their parts are copied to; lengths are positive.                        *)
(***************************************************************************)
EXTENDS Integers, SequencesExt, FiniteSetsExt

CONSTANTS
  Section, Key,   \* names that occur in the file or are asked for
  LongKey,        \* the keys of more than MAX_KEY_LEN characters
  Bracketed,      \* the keys that begin with '['
  Text,           \* values, each a sequence
  MaxValueLen,    \* MAX_VALUE_LEN
  Defval,         \* the caller's default, a sequence
  Calls,          \* what is asked for: a section, a key, and a length
  FileLine,       \* the lines of which files are made
  MaxLines        \* bound: lines in the file

\* cfg_get_key has no length.
NoLimit == 0

Line ==
  [kind : {"header"}, name : Section]
    \cup [kind : {"header="}, name : Section, key : Bracketed, text : Text]
    \cup [kind : {"setting"}, key : Key, text : Text]
    \cup [kind : {"comment"}]

ASSUME ConfAssumption ==
  /\ MaxLines \in Nat /\ MaxValueLen \in Nat
  /\ \A t \in Text \cup {Defval} : t \in Seq({t[n] : n \in DOMAIN t})
  /\ LongKey \subseteq Key /\ Bracketed \subseteq Key
  /\ FileLine \subseteq Line
  /\ Calls \subseteq [section : Section, key : Key, length : Nat]

VARIABLES
  lines, missing,               \* the lines of the file, which may not exist
  section, key, length,         \* the arguments
  pos,                          \* lines read so far
  section_found, key_found,     \* locals
  data, ret                     \* what the caller gets

confVars ==
  <<lines, missing, section, key, length, pos, section_found, key_found, data, ret>>

ConfInit ==
  /\ lines = <<>> /\ missing \in BOOLEAN
  /\ \E c \in Calls : section = c.section /\ key = c.key /\ length = c.length
  /\ pos = 0
  /\ section_found = FALSE /\ key_found = FALSE
  /\ data = <<>> /\ ret = "none"

\* Somebody writes the file, before the call.
Write(line) ==
  /\ pos = 0 /\ ret = "none" /\ ~missing
  /\ Len(lines) < MaxLines
  /\ lines' = Append(lines, line)
  /\ UNCHANGED <<missing, section, key, length, pos, section_found, key_found, data, ret>>

\* What is copied of a value that does not fit: one character too many.
CopiedUnterminated(text) ==
  IF length = NoLimit \/ length > Len(text) THEN text ELSE SubSeq(text, 1, length)

\* strcpy if it fits with its terminator, else the first length - 1 characters.
Copied(text) ==
  IF length = NoLimit \/ length > Len(text) THEN text ELSE SubSeq(text, 1, length - 1)

Current == lines[pos + 1]
IsHeader(line) == line.kind \in {"header", "header="}

Reading == ret = "none" /\ ~missing /\ pos < Len(lines)

\* A key is taken from the line and compared: from a setting of the section, and from
\* the header of another section before it, if there is a '='.
Compared ==
  /\ Reading
  /\ \/ section_found /\ Current.kind = "setting"
     \/ ~section_found /\ Current.kind = "header=" /\ Current.name # section

\* fopen fails.
OpenFails ==
  /\ ret = "none" /\ missing
  /\ data' = Defval /\ ret' = "CMN_ERROR"
  /\ UNCHANGED <<lines, missing, section, key, length, pos, section_found, key_found>>

\* The header of another section does not end this one.
SkipHeaders ==
  /\ Reading
  /\ \/ Current.kind = "comment"
     \/ Current.kind = "setting" /\ ~section_found
     \/ IsHeader(Current) /\ (section_found \/ Current.name # section)
     \/ Compared /\ Current.key \notin LongKey \cup {key}
  /\ pos' = pos + 1
  /\ UNCHANGED <<lines, missing, section, key, length, section_found, key_found, data, ret>>

\* Lines before the section, comments, lines without '=', other keys.
Skip ==
  /\ Reading
  /\ \/ Current.kind = "comment"
     \/ Current.kind = "setting" /\ ~section_found
     \/ Current.kind = "header" /\ ~section_found /\ Current.name # section
     \/ Compared /\ Current.key \notin LongKey \cup {key}
  /\ pos' = pos + 1
  /\ UNCHANGED <<lines, missing, section, key, length, section_found, key_found, data, ret>>

SectionStarts ==
  /\ Reading
  /\ ~section_found
  /\ IsHeader(Current) /\ Current.name = section
  /\ section_found' = TRUE
  /\ pos' = pos + 1
  /\ UNCHANGED <<lines, missing, section, key, length, key_found, data, ret>>

KeyFound ==
  /\ Compared
  /\ Current.key = key /\ key \notin LongKey
  /\ Len(Current.text) <= MaxValueLen
  /\ key_found' = TRUE
  /\ data' = Copied(Current.text) /\ ret' = "CMN_OK"
  /\ UNCHANGED <<lines, missing, section, key, length, pos, section_found>>

\* cfg_token_copy does not look at the size of key_buf and value_buf: a longer key, be
\* it another one, or a longer value runs over the end.  The call is not followed beyond.
Overrun ==
  /\ Compared
  /\ \/ Current.key \in LongKey
     \/ Current.key = key /\ Len(Current.text) > MaxValueLen
  /\ ret' = "overrun"
  /\ UNCHANGED <<lines, missing, section, key, length, pos, section_found, key_found, data>>

\* The end of the file, or the header of the next section, before the key: the
\* default is copied whole, whatever the length.
NotFound ==
  /\ ret = "none" /\ ~missing
  /\ pos < Len(lines) => section_found /\ IsHeader(Current)
  /\ data' = Defval /\ ret' = "CMN_NOKEY"
  /\ UNCHANGED <<lines, missing, section, key, length, pos, section_found, key_found>>

ConfNext ==
  \/ \E line \in FileLine : Write(line)
  \/ OpenFails \/ Skip \/ SectionStarts \/ KeyFound \/ Overrun \/ NotFound

ConfSpec == ConfInit /\ [][ConfNext]_confVars

-------------------------------------------------------------------------------
(* Properties *)

\* The lines of the section: those between its first header and the next header of
\* any name.
Headers == {n \in DOMAIN lines : IsHeader(lines[n])}
Body ==
  LET starts == {n \in Headers : lines[n].name = section}
  IN  IF starts = {} THEN {}
      ELSE {n \in DOMAIN lines :
              n > Min(starts) /\ ~\E h \in Headers : h > Min(starts) /\ h <= n}
Settings == {n \in Body : lines[n].kind = "setting" /\ lines[n].key = key}

Value == lines[Min(Settings)].text

\* A key or value that the buffers of the lookup do not hold.
TooLong(n) == lines[n].key \in LongKey \/ Len(lines[n].text) > MaxValueLen

\* The first setting of the key in the first section of the name is found, and only
\* that: no setting of another section, none before a section, none after the next.
\* It is given whole, or as much of it as the caller's buffer holds with a terminator.
\* The lookup ends neither way only at a key or value too long for its buffers, in the
\* section or in a header.  Keys that begin with '[' are left out: those are also found
\* in the headers of other sections.
FindsTheSetting ==
  (ret # "none" /\ ~missing /\ key \notin Bracketed) =>
    IF ret = "overrun" THEN pos + 1 \in Body \cup Headers /\ TooLong(pos + 1)
    ELSE IF Settings = {} THEN ret = "CMN_NOKEY" /\ data = Defval
    ELSE /\ ret = "CMN_OK"
         /\ IsPrefix(data, Value)
         /\ IF length = NoLimit THEN data = Value
            ELSE Len(data) = Min({length - 1, Len(Value)})
=============================================================================
