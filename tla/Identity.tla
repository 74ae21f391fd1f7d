------------------------------ MODULE Identity ------------------------------
(***************************************************************************)
(* The arbitrator's identity in config/deploy.env, and who reads it: the   *)
(* scripts by scripts/lib/config.sh, the guest's build by                  *)
(* methods/guest/identity.rs.  derive_keys prints it, by the reference's   *)
(* getIdentity.                                                            *)
(*                                                                         *)
(* A letter is a number, 'A' being 0; Alphabet stands for any other        *)
(* character.  A key is its 64-bit fragments.  A line of the file is its   *)
(* form, as far as the readers tell them apart, and the text after `='.    *)
(* Blanks that both readers trim are left out, as are other variables.     *)
(***************************************************************************)
EXTENDS Integers, SequencesExt

CONSTANTS
    Alphabet,           \* 26
    Fragments,          \* 4
    FragmentLetters,    \* 14
    FragmentModulus,    \* 2^64
    ChecksumLetters,    \* 4
    ChecksumModulus,    \* 2^18
    Checksum(_),        \* of a key: three bytes of its K12
    Files,              \* sequences of lines the operator may have written
    Exports             \* texts a shell may have exported

PublicKey == [1 .. Fragments -> 0 .. FragmentModulus - 1]

\* NAME=text; the same with a comment after a blank, with one right after the text, with
\* a blank after `='; with a blank before `='; and with a # before the name.
Forms == {"plain", "noted", "joined", "gap", "apart", "comment"}

\* Alphabet ^ count
Texts(count) ==
    LET power[n \in 0 .. count] == IF n = 0 THEN 1 ELSE Alphabet * power[n - 1]
    IN  power[count]

ASSUME IdentityAssumption ==
    /\ Alphabet \in Nat \ {0, 1}
    /\ {Fragments, FragmentLetters, ChecksumLetters} \subseteq Nat \ {0}
    /\ FragmentModulus \in 1 .. Texts(FragmentLetters)
    /\ ChecksumModulus \in 1 .. Texts(ChecksumLetters)
    /\ \A pk \in PublicKey : Checksum(pk) \in Nat
    /\ Files \subseteq Seq([form : Forms, text : Seq(0 .. Alphabet)])
    /\ Exports \subseteq Seq(0 .. Alphabet)

VARIABLES
    lines,       \* of the file
    terminated,  \* its last line ends with a newline
    exported,    \* ZKQ_ARBITRATOR_IDENTITY when the script starts: {} or {text}
    value,       \* the same, as the script goes
    next,        \* the line the script reads next
    script,      \* "reading", "stopped" or "loaded"
    baked        \* what the build bakes: {} before or when it fails, or {key}

identityVars == <<lines, terminated, exported, value, next, script, baked>>

-----------------------------------------------------------------------------
(* The encoding.                                                           *)

\* The letters of a number, lowest first, each divided off.
Digits(n, count) ==
    LET rest[i \in 0 .. count] == IF i = 0 THEN n ELSE rest[i - 1] \div Alphabet
    IN  [i \in 1 .. count |-> rest[i - 1] % Alphabet]

pubkey_to_identity(pk) ==
    FlattenSeq([i \in 1 .. Fragments |-> Digits(pk[i], FragmentLetters)])
        \o Digits(Checksum(pk) % ChecksumModulus, ChecksumLetters)

\* The reference's: letter i * 14 + j at a time, the checksum at 56 + i.
getIdentity(pk) ==
    LET body == Fragments * FragmentLetters IN
    [k \in 1 .. body + ChecksumLetters |->
        IF k <= body
        THEN Digits(pk[((k - 1) \div FragmentLetters) + 1], FragmentLetters)
                 [((k - 1) % FragmentLetters) + 1]
        ELSE Digits(Checksum(pk) % ChecksumModulus, ChecksumLetters)[k - body]]

\* ^[A-Z]{60}$
WellFormed(id) ==
    /\ Len(id) = Fragments * FragmentLetters + ChecksumLetters
    /\ Range(id) \subseteq 0 .. Alphabet - 1

\* frag * 26 + letter, in 64 bits, from the last letter of each fragment to its first.
KeyOf(id) ==
    [i \in 1 .. Fragments |->
        LET frag[n \in 0 .. FragmentLetters] ==
                IF n = 0 THEN 0
                ELSE (frag[n - 1] * Alphabet + id[i * FragmentLetters - n + 1]) % FragmentModulus
        IN  frag[FragmentLetters]]

\* Mutant: only the letters of the checksum are compared.
SameChecksum(id, pk) ==
    LET body == Fragments * FragmentLetters IN
    \A k \in body + 1 .. Len(id) : id[k] = pubkey_to_identity(pk)[k]

Confirmed(id, pk) == pubkey_to_identity(pk) = id

identity_to_pubkey(id) ==
    IF WellFormed(id) THEN {pk \in {KeyOf(id)} : Confirmed(id, pk)} ELSE {}

-----------------------------------------------------------------------------
(* The file.                                                               *)

IdentityInit ==
    /\ lines \in Files
    /\ terminated \in BOOLEAN
    /\ exported \in {{}} \cup {{text} : text \in Exports}
    /\ value = exported /\ next = 1 /\ script = "reading" /\ baked = {}

-----------------------------------------------------------------------------
(* scripts/lib/config.sh                                                   *)

\* while read: a last line without a newline is not among them.
Complete == IF terminated THEN Len(lines) ELSE Len(lines) - 1

\* What is left of the text: a comment goes only with the blank before it, and a blank
\* after `=' stays.
ShellValue(line) ==
    IF line.form \in {"plain", "noted"} THEN line.text ELSE <<Alphabet>> \o line.text

Continues(v) == value' = v /\ next' = next + 1 /\ UNCHANGED script

Stops == script' = "stopped" /\ UNCHANGED <<value, next>>

\* "The FILE is the truth": a value that is set and differs from the line's is an error.
ReadConfigLine ==
    /\ script = "reading" /\ next <= Complete
    /\ LET line == lines[next] IN
        \/ line.form = "comment" /\ Continues(value)
        \/ line.form = "apart" /\ Stops
        \/ /\ line.form \notin {"comment", "apart"}
           /\ IF value \subseteq {ShellValue(line)} THEN Continues({ShellValue(line)}) ELSE Stops
    /\ UNCHANGED <<lines, terminated, exported, baked>>

\* Neither empty nor anything but 60 letters.
Validate ==
    /\ script = "reading" /\ next > Complete
    /\ script' = IF \E id \in value : WellFormed(id) THEN "loaded" ELSE "stopped"
    /\ UNCHANGED <<lines, terminated, exported, value, next, baked>>

-----------------------------------------------------------------------------
(* methods/guest/identity.rs, build.rs                                     *)

\* starts_with("ZKQ_ARBITRATOR_IDENTITY=")
Matches(line) == line.form \notin {"apart", "comment"}

\* The first one; what follows a # goes, and blanks with it.
arbitrator_from_config ==
    LET found == {k \in DOMAIN lines : Matches(lines[k])} IN
    IF found = {} THEN {} ELSE identity_to_pubkey(lines[Min(found)].text)

Bake ==
    /\ baked = {} /\ baked' = arbitrator_from_config
    /\ UNCHANGED <<lines, terminated, exported, value, next, script>>

IdentityNext == ReadConfigLine \/ Validate \/ Bake

IdentitySpec == IdentityInit /\ [][IdentityNext]_identityVars

-----------------------------------------------------------------------------
(* Properties.                                                             *)

\* What derive_keys prints.
Printed == [pk \in PublicKey |-> getIdentity(pk)]

\* The guest is built for the arbitrator whose identity the scripts show and check, whatever
\* the file looks like: two readers that trim, skip and search in their own ways agree
\* where both accept it, and although 26^14 > 2^64 no second text stands for a key.
\* A file that lacks its last newline may hide that line from the scripts, and then they
\* go by what is exported; with nothing exported they agree then, too.
\* And what is printed for a key is an identity that both take for it.
BuildAndScriptsAgree ==
    /\ script = "loaded" /\ baked # {} /\ (terminated \/ exported = {}) =>
        value = {pubkey_to_identity(pk) : pk \in baked}
    /\ Len(lines) = 1 /\ terminated /\ exported = {} =>
        \A pk \in PublicKey : lines[1] = [form |-> "plain", text |-> Printed[pk]] =>
            script # "stopped" /\ arbitrator_from_config = {pk}
=============================================================================
