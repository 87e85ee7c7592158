------------------------------ MODULE SignBuild ------------------------------
(***************************************************************************)
(* How a module file comes to be: the rules add_kmod of CMakeLists.txt     *)
(* gives to make (compile, perhaps compile ahead of time, sign, touch the  *)
(* stamp) and tools/sign.py, which rewrites its file in place, run by make *)
(* or by hand.                                                             *)
(*                                                                         *)
(* A file is a sequence of segments: the code of a .wasm or an .aot, and   *)
(* signatures (a custom section in a .wasm, a text at the end of any other *)
(* file), each of them whole or cut off by a write that failed.  Time      *)
(* stamps are only compared: stale holds the outputs that are older than   *)
(* one of their inputs or missing.                                         *)
(***************************************************************************)
EXTENDS Naturals, Sequences

CONSTANTS MaxEdits,    \* bound: edits of the sources, and of the headers
          MaxSegments  \* bound: segments of a file that is signed again

ASSUME EditsAssumption == MaxEdits \in Nat /\ MaxSegments \in Nat

File == {"wasm", "aot"}

VARIABLES cpp,    \* version of the sources of the target
          hdr,    \* version of the headers they include
          wamrc,  \* configured with an AOT compiler
          file,   \* the contents of the .wasm and the .aot
          made,   \* those that exist
          stale,  \* outputs make has to renew: "wasm", "aot", "stamp"
          at,     \* where the one running build or sign.py is
          who,    \* "make" or "hand"
          target, \* the file sign.py signs
          buf     \* what sign.py read of it, without its old signature

signer == <<who, target, buf>>
vars == <<cpp, hdr, wamrc, file, made, stale, at, signer>>

----------------------------------------------------------------------------
(* The contents of a file, as sign.py sees them. *)

Code(kind, c, h) == [what |-> kind, cut |-> FALSE, cpp |-> c, hdr |-> h]
Signature(s) == [what |-> "sig", cut |-> FALSE, over |-> s]

Unsigned(s) == {i \in DOMAIN s : s[i].what # "sig"}
WholeSig(x) == x.what = "sig" /\ ~x.cut

\* The header of a .wasm comes first; an empty file has none.
is_wasm(s) == s # <<>> /\ s[1].what = "wasm"

\* The first signature section, unless a section before it runs beyond the end
\* of the file.  (A cut leaves out more than the sections added behind it.)
find_sig_section(s) ==
  {i \in DOMAIN s : WholeSig(s[i]) /\ \A j \in 1..(i - 1) : s[j].what # "sig" /\ ~s[j].cut}

\* Only the text at the end is looked for.
RemoveTextOnly(s) ==
  IF ~is_wasm(s) /\ s # <<>> /\ WholeSig(s[Len(s)]) THEN SubSeq(s, 1, Len(s) - 1) ELSE s

remove_old_signature(s) ==
  IF is_wasm(s)
  THEN LET keep == DOMAIN s \ find_sig_section(s)
       IN  IF keep = DOMAIN s THEN s
           ELSE LET i == CHOOSE k \in find_sig_section(s) : TRUE
                IN  SubSeq(s, 1, i - 1) \o SubSeq(s, i + 1, Len(s))
  ELSE IF s # <<>> /\ WholeSig(s[Len(s)]) THEN SubSeq(s, 1, Len(s) - 1) ELSE s

\* What is on the disk when writing s failed somewhere: its beginning, perhaps
\* with the last segment cut.
Beginnings(s) ==
  {SubSeq(s, 1, k) : k \in 0..(Len(s) - 1)}
    \cup {Append(SubSeq(s, 1, k - 1), [s[k] EXCEPT !.cut = TRUE]) : k \in DOMAIN s}

----------------------------------------------------------------------------
(* make. *)

Final == IF wamrc THEN "aot" ELSE "wasm"

\* The signing rule that depends on the .wasm whatever the final file is.
DependentMutant(f) == "stamp"

\* A target of its own for the .aot, always.
DependentAot(f) == IF f = "wasm" THEN "aot" ELSE "stamp"

\* What becomes older than f when f is written.
Dependent(f) == IF f = "wasm" /\ wamrc THEN "aot" ELSE "stamp"

Write(f, s) ==
  /\ file' = [file EXCEPT ![f] = s]
  /\ made' = made \cup {f}

StartMake ==
  /\ at = "idle"
  /\ at' = "compile"
  /\ UNCHANGED <<cpp, hdr, wamrc, file, made, stale, signer>>

\* The compiler reads the sources and writes its output in one piece: that an
\* edit made while it runs is older than the output is left out.
Compile ==
  /\ at = "compile" /\ "wasm" \in stale
  /\ Write("wasm", <<Code("wasm", cpp, hdr)>>)
  /\ stale' = (stale \ {"wasm"}) \cup {Dependent("wasm")}
  /\ at' = "aot"
  /\ UNCHANGED <<cpp, hdr, wamrc, signer>>

CompileAot ==
  /\ at = "aot" /\ wamrc /\ "aot" \in stale
  /\ \A i \in DOMAIN file["wasm"] : ~file["wasm"][i].cut
  /\ Unsigned(file["wasm"]) = {1}
  /\ Write("aot", <<Code("aot", file["wasm"][1].cpp, file["wasm"][1].hdr)>>)
  /\ stale' = (stale \ {"aot"}) \cup {"stamp"}
  /\ at' = "sign"
  /\ UNCHANGED <<cpp, hdr, wamrc, signer>>

\* wamrc does not take a damaged file; make gives up.
AotFails ==
  /\ at = "aot" /\ wamrc /\ "aot" \in stale
  /\ \/ Unsigned(file["wasm"]) # {1}
     \/ \E i \in DOMAIN file["wasm"] : file["wasm"][i].cut
  /\ at' = "idle"
  /\ UNCHANGED <<cpp, hdr, wamrc, file, made, stale, signer>>

\* Outputs that are up to date are left alone.
UpToDate ==
  /\ \/ at = "compile" /\ "wasm" \notin stale /\ at' = "aot"
     \/ at = "aot" /\ ~(wamrc /\ "aot" \in stale) /\ at' = "sign"
     \/ at = "sign" /\ "stamp" \notin stale /\ at' = "idle"
  /\ UNCHANGED <<cpp, hdr, wamrc, file, made, stale, signer>>

\* The first command of the last rule runs sign.py on the final file.
StartSign ==
  /\ at = "sign" /\ "stamp" \in stale
  /\ Len(file[Final]) <= MaxSegments
  /\ at' = "read" /\ who' = "make" /\ target' = Final
  /\ UNCHANGED <<cpp, hdr, wamrc, file, made, stale, buf>>

\* The second touches the stamp.
Touch ==
  /\ at = "touch"
  /\ stale' = stale \ {"stamp"}
  /\ at' = "idle"
  /\ UNCHANGED <<cpp, hdr, wamrc, file, made, signer>>

----------------------------------------------------------------------------
(* sign.py. *)

SignByHand(f) ==
  /\ at = "idle" /\ f \in made /\ Len(file[f]) <= MaxSegments
  /\ at' = "read" /\ who' = "hand" /\ target' = f
  /\ UNCHANGED <<cpp, hdr, wamrc, file, made, stale, buf>>

Read ==
  /\ at = "read"
  /\ buf' = remove_old_signature(file[target])
  /\ at' = "open"
  /\ UNCHANGED <<cpp, hdr, wamrc, file, made, stale, who, target>>

\* open(file_path, 'wb') empties the file.
Truncate ==
  /\ at = "open"
  /\ Write(target, <<>>)
  /\ stale' = stale \cup {Dependent(target)}
  /\ at' = "body"
  /\ UNCHANGED <<cpp, hdr, wamrc, signer>>

WriteBody ==
  /\ at = "body"
  /\ Write(target, buf)
  /\ at' = "sig"
  /\ UNCHANGED <<cpp, hdr, wamrc, stale, signer>>

\* The file is read again for signing, after it was opened for writing.
SignedAfterOpen == Append(buf, Signature(<<>>))

\* The file with the signature of its contents behind them.
Signed == Append(buf, Signature(buf))

WriteSignature ==
  /\ at = "sig"
  /\ Write(target, Signed)
  /\ at' = IF who = "make" THEN "touch" ELSE "idle"
  /\ UNCHANGED <<cpp, hdr, wamrc, stale, signer>>

\* The error is printed and sign.py exits with status 0.
AfterErrorMutant == IF who = "make" THEN "touch" ELSE "idle"

\* sys.exit(1): make gives up.
AfterError == "idle"

\* The disk is full.
WriteFails ==
  /\ at \in {"body", "sig"}
  /\ \E s \in Beginnings(IF at = "body" THEN buf ELSE Signed) :
       /\ at = "sig" => Len(s) >= Len(buf)
       /\ Write(target, s)
  /\ at' = AfterError
  /\ UNCHANGED <<cpp, hdr, wamrc, stale, signer>>

----------------------------------------------------------------------------
(* The developer. *)

EditSource ==
  /\ cpp < MaxEdits
  /\ cpp' = cpp + 1
  /\ stale' = stale \cup {"wasm"}
  /\ UNCHANGED <<hdr, wamrc, file, made, at, signer>>

\* The rule that compiles does not depend on the headers.
EditHeader ==
  /\ hdr < MaxEdits
  /\ hdr' = hdr + 1
  /\ UNCHANGED <<cpp, wamrc, file, made, stale, at, signer>>

\* The build, or sign.py, is killed wherever it is.
Interrupt ==
  /\ at # "idle"
  /\ at' = "idle"
  /\ UNCHANGED <<cpp, hdr, wamrc, file, made, stale, signer>>

----------------------------------------------------------------------------
Init ==
  /\ cpp = 0 /\ hdr = 0
  /\ wamrc \in BOOLEAN
  /\ file = [f \in File |-> <<>>]
  /\ made = {}
  /\ stale = {"wasm", "stamp"} \cup (IF wamrc THEN {"aot"} ELSE {})
  /\ at = "idle" /\ who = "make" /\ target = "wasm" /\ buf = <<>>

Next ==
  \/ StartMake \/ Compile \/ CompileAot \/ AotFails \/ UpToDate \/ StartSign \/ Touch
  \/ \E f \in File : SignByHand(f)
  \/ Read \/ Truncate \/ WriteBody \/ WriteSignature \/ WriteFails
  \/ EditSource \/ EditHeader \/ Interrupt

Spec == Init /\ [][Next]_vars
----------------------------------------------------------------------------
(* Properties. *)

Damaged(s) == Unsigned(s) # {1} \/ \E i \in DOMAIN s : s[i].cut

\* A build would find nothing to do.
BuildIsDone == at = "idle" /\ stale = {}

\* The shape of the state; a target without an AOT compiler has no .aot.
TypeOK ==
  /\ cpp \in 0..MaxEdits /\ hdr \in 0..MaxEdits /\ wamrc \in BOOLEAN
  /\ DOMAIN file = File /\ \A f \in File : Len(file[f]) <= MaxSegments + 1
  /\ made \subseteq File /\ stale \subseteq {"wasm", "aot", "stamp"}
  /\ ~wamrc => "aot" \notin made \cup stale
  /\ at \in {"idle", "compile", "aot", "sign", "touch", "read", "open", "body", "sig"}
  /\ who \in {"make", "hand"} /\ target \in File

\* A signature at the end of a file is always one of exactly what is before it:
\* through signing again, by make and by hand, after any failure.
SignatureMatches ==
  \A f \in File : LET s == file[f] IN
    s # <<>> /\ WholeSig(s[Len(s)]) => s[Len(s)].over = SubSeq(s, 1, Len(s) - 1)

\* However often a file is signed it has one signature: none of those before it
\* is covered by the last, unless a failure has damaged the file.
OneSignature ==
  \A f \in File : LET s == file[f] IN
    Damaged(s) \/ \A i \in DOMAIN s : s[i].what = "sig" => i = Len(s)

\* The stamp of an interrupted or failed signing is not taken for a signature:
\* make stops only at a signed file.
StampedIsSigned ==
  BuildIsDone => file[Final] # <<>> /\ WholeSig(file[Final][Len(file[Final])])

\* Where make has nothing to do, the final file comes from the current sources,
\* through the signing of its inputs by hand and edits between the rules of a
\* build.
\* (Nothing like it holds of the headers.)
StampedIsCurrent == BuildIsDone /\ ~Damaged(file[Final]) => file[Final][1].cpp = cpp

\* README.md, "build/MyMod.wasm (stripped + Ed25519-signed)": where make has
\* nothing to do, the final file is a whole module.
StampedIsWhole == BuildIsDone => ~Damaged(file[Final])

\* The two ways it comes to be otherwise: sign.py is killed between emptying
\* its file and writing it back, or one of its writes fails.
Damages == (Interrupt /\ at = "body") \/ WriteFails
=============================================================================
