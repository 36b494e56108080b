-------------------------- MODULE VaultSetupProofs --------------------------
(***************************************************************************)
(* Theorems about VaultSetup, for every number of processes, directories   *)
(* and configurations, and for any amount of trouble.                      *)
(***************************************************************************)
EXTENDS VaultSetup, TLAPS

\* What a process has in memory at each step.
Generating == {"createKey", "writeKey"}
WithConfig == Generating \cup {"loadKeys"}
WithVault == {"truncateState", "writeState", "loadWallet", "createWallet",
              "reloadWallet", "import"}

MemoryInv ==
    \A p \in Procs : /\ at[p] \in WithConfig => cfg[p] # None
                     /\ at[p] \in WithVault => vault[p] # None
                     /\ at[p] \notin Generating => role[p] = Primary

\* A process that has created the first file of a directory, and not yet written
\* the last: it alone writes there, and it finds what it has left.
Writing(p) == at[p] = "writeKey" \/ (at[p] = "createKey" /\ role[p] # Primary)

Directory(p) == cfg[p].keys_dir

Left(p, r) ==
    IF r < role[p] THEN OwnKey(p)
    ELSE IF r = role[p] /\ at[p] = "writeKey" THEN Torn
    ELSE Absent

OwnerInv ==
    /\ \A p \in Procs : Writing(p) => \A r \in Roles : files[Directory(p)][r] = Left(p, r)
    /\ \A p, q \in Procs : Writing(p) /\ Writing(q) /\ Directory(p) = Directory(q) => p = q

\* The files of a directory come one by one, whoever writes them.
InOrder ==
    \A d \in KeysDirs : \A r, s \in Roles :
        r < s /\ files[d][r] \notin Key => files[d][s] = Absent

\* Every vault that anybody has seen, or may still come to see, has its keys in
\* some directory.
Vaults ==
    printed \cup watched \cup ({state} \cap VaultStates)
        \cup ({vault[p] : p \in Procs} \cap VaultStates)

KeptInv ==
    /\ \A v \in Vaults : \E d \in KeysDirs : files[d] = v.keys
    /\ \A k \in announced : \A r \in Roles : files[k.dir][r] = k

SetupInv == TypeOK /\ MemoryInv /\ OwnerInv /\ InOrder /\ OneRunPerDirectory /\ KeptInv

-----------------------------------------------------------------------------
(* The steps, however they come about. *)

Action(p) == Step(p) \/ Start(p) \/ Kill(p)

\* The operator and the troubles only choose among the steps.
LEMMA NextIsAction ==
    ASSUME Next
    PROVE  \/ \E p \in Procs : Action(p)
           \/ NewKeysDir \/ RestartCore \/ EditConfig
<1>1. ASSUME NEW p \in Procs, Operate(p) PROVE Start(p)
    BY <1>1 DEF Operate, Start
<1> QED
    BY <1>1 DEF Next, Trouble, Action

\* An empty file is not a key.
LEMMA NotKeys == Absent \notin Key /\ Torn \notin Key /\ Absent # Torn
BY SetupSentinels

\* A process that has a configuration has a directory.
LEMMA OwnDirectory ==
    ASSUME TypeOK, MemoryInv, NEW p \in Procs, at[p] \in WithConfig
    PROVE  /\ cfg[p] \in Configs /\ ConfigAccepted(cfg[p])
           /\ Directory(p) \in KeysDirs /\ OwnKey(p) \in Key
<1>1. cfg[p] \in Configs /\ ConfigAccepted(cfg[p])
    BY DEF TypeOK, MemoryInv
<1>2. cfg[p].keys_dir \in KeysDirs
    BY <1>1, SetupSentinels DEF ConfigAccepted
<1> QED
    BY <1>1, <1>2 DEF Directory, OwnKey, Key

-----------------------------------------------------------------------------
(* Types. *)

\* Nothing is there before the first command.
LEMMA InitSetup == Init => SetupInv
<1> SUFFICES ASSUME Init PROVE SetupInv
    OBVIOUS
<1>1. TypeOK
    BY SetupSentinels DEF Init, TypeOK, Roles, Primary, Override, Agent
<1>2. MemoryInv
    BY DEF Init, MemoryInv, WithConfig, Generating, WithVault
<1>3. OwnerInv
    BY DEF Init, OwnerInv, Writing
<1>4. OneRunPerDirectory
    BY NotKeys DEF Init, OneRunPerDirectory
<1>5. KeptInv
    BY SetupSentinels DEF Init, KeptInv, Vaults
<1>6. InOrder
    BY DEF Init, InOrder
<1> QED
    BY <1>1, <1>2, <1>3, <1>4, <1>5, <1>6 DEF SetupInv

\* The network, the delay and the keys that init-vault has looked at are those of
\* a vault.
LEMMA BuiltIsVault ==
    ASSUME TypeOK, MemoryInv, NEW p \in Procs, at[p] = "loadKeys",
           files[Directory(p)] \in KeySet,
           DescriptorAccepted(cfg[p].csv_blocks, cfg[p].bitcoin.network)
    PROVE  Built(p) \in VaultStates /\ files[Directory(p)] = Built(p).keys
BY DEF Built, build, VaultStates, DescriptorAccepted, Directory

\* No step puts anything else in a file, in Core or in memory.
LEMMA ActionTypes ==
    ASSUME TypeOK, MemoryInv, NEW p \in Procs, Action(p), trouble' \in 0..MaxTrouble
    PROVE  TypeOK'
<1> USE DEF TypeOK, Steps, disk, core, procs, shown
<1>1. CASE StartInitConfig(p, TRUE) \/ StartInitConfig(p, FALSE)
    BY <1>1 DEF StartInitConfig, Goto
<1>2. CASE CreateConfig(p)
    BY <1>2 DEF CreateConfig, Goto, Continue, End, Roles
<1>3. CASE TruncateConfig(p)
    BY <1>3 DEF TruncateConfig, Goto, Continue
<1>4. CASE WriteConfig(p)
    BY <1>4, ExampleAssumption DEF WriteConfig, Goto, End, Roles, ConfigsAccepted
<1>5. CASE StartGenerate(p)
    BY <1>5 DEF StartGenerate, LoadConfig, Goto
<1>6. CASE CreateKey(p)
    <2>1. Directory(p) \in KeysDirs
        BY <1>6, OwnDirectory DEF CreateKey, WithConfig, Generating
    <2>2. CASE WriteFile(p, Torn) /\ Continue(p, "writeKey")
        BY <1>6, <2>1, <2>2 DEF CreateKey, WriteFile, Goto, Continue, Directory
    <2>3. CASE UNCHANGED files /\ End(p)
        BY <1>6, <2>3 DEF CreateKey, Goto, End, Roles
    <2> QED
        BY <1>6, <2>2, <2>3 DEF CreateKey
<1>7. CASE WriteKey(p)
    <2>1. Directory(p) \in KeysDirs /\ OwnKey(p) \in Key
        BY <1>7, OwnDirectory DEF WriteKey, WithConfig, Generating
    <2>2. role[p] + 1 \in Roles
        BY <1>7 DEF WriteKey, Roles, Primary, Override, Agent
    <2> QED
        BY <1>7, <2>1, <2>2 DEF WriteKey, WriteFile, Goto, Directory
<1>8. CASE WriteLastKey(p)
    <2>1. Directory(p) \in KeysDirs /\ OwnKey(p) \in Key
        BY <1>8, OwnDirectory DEF WriteLastKey, WithConfig, Generating
    <2> QED
        BY <1>8, <2>1 DEF WriteLastKey, WriteFile, Goto, End, Directory, Roles
<1>9. CASE StartInitVault(p, TRUE) \/ StartInitVault(p, FALSE)
    BY <1>9 DEF StartInitVault, LoadConfig, Goto
<1>10. CASE LoadKeys(p)
    BY <1>10, BuiltIsVault DEF LoadKeys, Goto, End, Roles, Directory
<1>11. CASE TruncateState(p)
    BY <1>11 DEF TruncateState, Goto, Continue
<1>12. CASE WriteState(p)
    BY <1>12 DEF WriteState, Goto, End, Roles, MemoryInv, WithVault
<1>13. CASE Address(p)
    BY <1>13 DEF Address, StateLoads
<1>14. CASE StartImport(p)
    BY <1>14 DEF StartImport, StateLoads, LoadConfig, Goto
<1>15. CASE LoadWallet(p)
    BY <1>15 DEF LoadWallet, Goto, Continue
<1>16. CASE CreateWallet(p)
    BY <1>16 DEF CreateWallet, Goto, Continue
<1>17. CASE ReloadWallet(p)
    BY <1>17 DEF ReloadWallet, Goto, Continue, End, Roles
<1>18. CASE Import(p)
    BY <1>18 DEF Import, Goto, End, Roles, MemoryInv, WithVault
<1>19. CASE Kill(p)
    BY <1>19 DEF Kill, Goto, End, Roles
<1> QED
    BY <1>1, <1>2, <1>3, <1>4, <1>5, <1>6, <1>7, <1>8, <1>9, <1>10, <1>11, <1>12,
       <1>13, <1>14, <1>15, <1>16, <1>17, <1>18, <1>19 DEF Action, Step, Start

\* No process goes on without the configuration or the vault that it needs.
LEMMA ActionMemory ==
    ASSUME TypeOK, MemoryInv, NEW p \in Procs, Action(p)
    PROVE  MemoryInv'
<1> USE SetupSentinels
    DEF TypeOK, MemoryInv, WithConfig, Generating, WithVault, disk, core, procs, shown
<1>1. CASE StartInitConfig(p, TRUE) \/ StartInitConfig(p, FALSE)
    BY <1>1 DEF StartInitConfig, Goto
<1>2. CASE CreateConfig(p) \/ TruncateConfig(p) \/ WriteConfig(p)
    BY <1>2 DEF CreateConfig, TruncateConfig, WriteConfig, Goto, Continue, End
<1>3. CASE StartGenerate(p)
    BY <1>3 DEF StartGenerate, LoadConfig, Goto
<1>4. CASE CreateKey(p) \/ WriteKey(p) \/ WriteLastKey(p)
    BY <1>4 DEF CreateKey, WriteKey, WriteLastKey, Goto, Continue, End
<1>5. CASE StartInitVault(p, TRUE) \/ StartInitVault(p, FALSE)
    BY <1>5 DEF StartInitVault, LoadConfig, Goto
<1>6. CASE LoadKeys(p)
    BY <1>6, BuiltIsVault DEF LoadKeys, Goto, End, Directory
<1>7. CASE TruncateState(p) \/ WriteState(p)
    BY <1>7 DEF TruncateState, WriteState, Goto, Continue, End
<1>8. CASE Address(p)
    BY <1>8 DEF Address
<1>9. CASE StartImport(p)
    BY <1>9 DEF StartImport, StateLoads, LoadConfig, Goto
<1>10. CASE LoadWallet(p) \/ CreateWallet(p) \/ ReloadWallet(p) \/ Import(p)
    BY <1>10 DEF LoadWallet, CreateWallet, ReloadWallet, Import, Goto, Continue, End
<1>11. CASE Kill(p)
    BY <1>11 DEF Kill, Goto, End
<1> QED
    BY <1>1, <1>2, <1>3, <1>4, <1>5, <1>6, <1>7, <1>8, <1>9, <1>10, <1>11
    DEF Action, Step, Start
-----------------------------------------------------------------------------
(* The key files. *)

\* A step of one process changes the memory of no other.
LEMMA OthersStay ==
    ASSUME TypeOK, NEW p \in Procs, NEW q \in Procs, p # q, Action(p)
    PROVE  /\ at'[q] = at[q] /\ cfg'[q] = cfg[q]
           /\ role'[q] = role[q] /\ vault'[q] = vault[q]
<1> USE DEF TypeOK, Goto, Continue, End, LoadConfig, disk, core, procs, shown
<1>1. CASE Step(p)
    BY <1>1 DEF Step, CreateConfig, TruncateConfig, WriteConfig, CreateKey, WriteKey,
                WriteLastKey, LoadKeys, TruncateState, WriteState, LoadWallet,
                CreateWallet, ReloadWallet, Import
<1>2. CASE Start(p)
    BY <1>2 DEF Start, StartInitConfig, StartInitVault, StartGenerate, Address,
                StartImport
<1>3. CASE Kill(p)
    BY <1>3 DEF Kill
<1> QED
    BY <1>1, <1>2, <1>3 DEF Action

\* Only keys generate touches the key files; what else a process does, it does not
\* do between its first file and its last.
LEMMA FilesStay ==
    ASSUME TypeOK, MemoryInv, NEW p \in Procs, Action(p),
           ~CreateKey(p), ~WriteKey(p), ~WriteLastKey(p)
    PROVE  files' = files /\ ~Writing(p)'
<1> USE DEF TypeOK, MemoryInv, Writing, Generating, Goto, Continue, End, LoadConfig,
            disk, core, procs, shown
<1>1. CASE Step(p)
    BY <1>1 DEF Step, CreateConfig, TruncateConfig, WriteConfig, LoadKeys,
                TruncateState, WriteState, LoadWallet, CreateWallet, ReloadWallet, Import
<1>2. CASE Start(p)
    BY <1>2 DEF Start, StartInitConfig, StartInitVault, StartGenerate, Address,
                StartImport
<1>3. CASE Kill(p)
    BY <1>3 DEF Kill
<1> QED
    BY <1>1, <1>2, <1>3 DEF Action

FilesInv == OwnerInv /\ InOrder /\ OneRunPerDirectory

\* A process that stops writing leaves the others as they are.
LEMMA QuietStep ==
    ASSUME TypeOK, MemoryInv, FilesInv, NEW p \in Procs, Action(p),
           files' = files, ~Writing(p)'
    PROVE  FilesInv'
<1>1. \A q \in Procs \ {p} : /\ Writing(q)' <=> Writing(q)
                              /\ Directory(q)' = Directory(q)
                              /\ \A r \in Roles : Left(q, r)' = Left(q, r)
    BY OthersStay DEF Writing, Directory, Left, OwnKey
<1>2. OwnerInv'
    BY <1>1 DEF FilesInv, OwnerInv
<1>3. InOrder' /\ OneRunPerDirectory'
    BY DEF FilesInv, InOrder, OneRunPerDirectory
<1> QED
    BY <1>2, <1>3 DEF FilesInv

\* A file appears only in a directory where nobody else is at work.
LEMMA CreatesAlone ==
    ASSUME TypeOK, MemoryInv, FilesInv, NEW p \in Procs, at[p] = "createKey",
           files[Directory(p)][role[p]] = Absent
    PROVE  /\ \A q \in Procs : Writing(q) /\ Directory(q) = Directory(p) => q = p
           /\ \A r \in Roles : files[Directory(p)][r] =
                                   IF r < role[p] THEN OwnKey(p) ELSE Absent
<1> USE DEF Roles, Primary, Override, Agent
<1>0. role[p] \in Roles /\ Directory(p) \in KeysDirs
    BY OwnDirectory DEF TypeOK, WithConfig, Generating
<1>1. CASE Writing(p)
    BY <1>0, <1>1 DEF FilesInv, OwnerInv, Left
<1>2. CASE ~Writing(p)
    <2>1. role[p] = Primary
        BY <1>2 DEF Writing
    <2>2. ASSUME NEW q \in Procs, Writing(q), Directory(q) = Directory(p)
          PROVE  FALSE
        <3>1. OwnKey(q) \in Key /\ role[q] \in Roles
            BY <2>2, OwnDirectory DEF Writing, WithConfig, Generating, TypeOK
        <3>2. files[Directory(q)][Primary] = Left(q, Primary)
            BY <2>2 DEF FilesInv, OwnerInv
        <3>3. Left(q, Primary) # Absent
            BY <2>2, <3>1, NotKeys DEF Left, Writing
        <3> QED
            BY <2>1, <2>2, <3>2, <3>3
    <2>3. \A r \in Roles : files[Directory(p)][r] = Absent
        BY <1>0, <2>1, NotKeys DEF FilesInv, InOrder
    <2> QED
        BY <2>1, <2>2, <2>3
<1> QED
    BY <1>1, <1>2

\* The file of a directory that a process has created or written: the others of
\* its directory, and all other directories, stay.
Touched(p, content) ==
    files' = [files EXCEPT ![Directory(p)][role[p]] = content]

\* Those who are at work elsewhere do not notice.
LEMMA ElsewhereStays ==
    ASSUME TypeOK, MemoryInv, FilesInv, NEW p \in Procs, Action(p),
           NEW content, Touched(p, content), Directory(p) \in KeysDirs,
           \A q \in Procs : Writing(q) /\ Directory(q) = Directory(p) => q = p,
           NEW q \in Procs \ {p}, Writing(q)'
    PROVE  /\ Writing(q) /\ Directory(q)' = Directory(q) /\ Directory(q) # Directory(p)
           /\ \A r \in Roles : files'[Directory(q)'][r] = Left(q, r)'
<1>1. /\ Writing(q)' <=> Writing(q)
      /\ Directory(q)' = Directory(q)
      /\ \A r \in Roles : Left(q, r)' = Left(q, r)
    BY OthersStay DEF Writing, Directory, Left, OwnKey
<1>2. Directory(q) \in KeysDirs
    BY <1>1, OwnDirectory DEF Writing, WithConfig, Generating
<1>3. \A r \in Roles : files[Directory(q)][r] = Left(q, r)
    BY <1>1 DEF FilesInv, OwnerInv
<1> QED
    BY <1>1, <1>2, <1>3 DEF Touched, TypeOK

\* What the process itself has left is all there is to look at.
LEMMA OwnerStays ==
    ASSUME TypeOK, MemoryInv, FilesInv, NEW p \in Procs, Action(p),
           NEW content, Touched(p, content), Directory(p) \in KeysDirs,
           \A q \in Procs : Writing(q) /\ Directory(q) = Directory(p) => q = p,
           Writing(p)' => /\ Directory(p)' = Directory(p)
                          /\ \A r \in Roles : files'[Directory(p)][r] = Left(p, r)'
    PROVE  OwnerInv'
<1>1. ASSUME NEW q \in Procs, Writing(q)'
      PROVE  \A r \in Roles : files'[Directory(q)'][r] = Left(q, r)'
    <2>1. CASE q = p
        BY <1>1, <2>1
    <2>2. CASE q # p
        BY <1>1, <2>2, ElsewhereStays
    <2> QED
        BY <2>1, <2>2
<1>2. ASSUME NEW q \in Procs, NEW u \in Procs, Writing(q)', Writing(u)',
             Directory(q)' = Directory(u)'
      PROVE  q = u
    <2>1. CASE q # p /\ u # p
        <3>1. /\ Writing(q) /\ Directory(q)' = Directory(q)
              /\ Writing(u) /\ Directory(u)' = Directory(u)
            BY <1>2, <2>1, ElsewhereStays
        <3> QED
            BY <1>2, <3>1 DEF FilesInv, OwnerInv
    <2>2. CASE q # p /\ u = p
        <3>1. Directory(q)' = Directory(q) /\ Directory(q) # Directory(p)
            BY <1>2, <2>2, ElsewhereStays
        <3> QED
            BY <1>2, <2>2, <3>1
    <2>3. CASE q = p /\ u # p
        <3>1. Directory(u)' = Directory(u) /\ Directory(u) # Directory(p)
            BY <1>2, <2>3, ElsewhereStays
        <3> QED
            BY <1>2, <2>3, <3>1
    <2> QED
        BY <2>1, <2>2, <2>3
<1> QED
    BY <1>1, <1>2 DEF OwnerInv

\* create_new: the file was not there, so nobody else is at work here.
LEMMA CreateKeyFiles ==
    ASSUME TypeOK, MemoryInv, FilesInv, NEW p \in Procs, CreateKey(p)
    PROVE  FilesInv'
<1> USE DEF Roles, Primary, Override, Agent
<1>0. Action(p) /\ at[p] = "createKey" /\ role[p] \in Roles /\ Directory(p) \in KeysDirs
    BY OwnDirectory DEF CreateKey, Action, Step, TypeOK, WithConfig, Generating
<1>1. CASE UNCHANGED files /\ End(p)
    BY <1>0, <1>1, QuietStep DEF End, Goto, Writing, TypeOK
<1>2. CASE files[Directory(p)][role[p]] = Absent /\ WriteFile(p, Torn) /\ Continue(p, "writeKey")
    <2>1. /\ \A q \in Procs : Writing(q) /\ Directory(q) = Directory(p) => q = p
          /\ \A r \in Roles : files[Directory(p)][r] =
                                  IF r < role[p] THEN OwnKey(p) ELSE Absent
        BY <1>0, <1>2, CreatesAlone
    <2>2. Touched(p, Torn) /\ Directory(p)' = Directory(p) /\ OwnKey(p)' = OwnKey(p)
        BY <1>2 DEF Touched, WriteFile, Continue, Directory, OwnKey
    <2>3. role' = role /\ at'[p] = "writeKey"
        BY <1>2 DEF Continue, Goto, TypeOK
    <2>4. \A r \in Roles : files'[Directory(p)][r] = Left(p, r)'
        BY <1>0, <2>1, <2>2, <2>3 DEF Touched, Left, TypeOK
    <2>5. \A d \in KeysDirs \ {Directory(p)} : files'[d] = files[d]
        BY <2>2 DEF Touched, TypeOK
    <2>6. OwnerInv'
        BY <1>0, <2>1, <2>2, <2>4, OwnerStays
    <2>7. OwnKey(p) \in Key
        BY <1>0, OwnDirectory DEF WithConfig, Generating
    <2>8. \A r \in Roles : files'[Directory(p)][r] =
                    IF r < role[p] THEN OwnKey(p) ELSE IF r = role[p] THEN Torn ELSE Absent
        BY <2>2, <2>3, <2>4 DEF Left
    <2>9. InOrder'
        BY <1>0, <2>5, <2>7, <2>8 DEF FilesInv, InOrder
    <2>10. OneRunPerDirectory'
        BY <1>0, <2>5, <2>7, <2>8, NotKeys DEF FilesInv, OneRunPerDirectory
    <2> QED
        BY <2>6, <2>9, <2>10 DEF FilesInv
<1> QED
    BY <1>1, <1>2 DEF CreateKey, Directory

\* The key replaces the empty file that the process itself has created.
LEMMA WriteKeyFiles ==
    ASSUME TypeOK, MemoryInv, FilesInv, NEW p \in Procs, WriteKey(p) \/ WriteLastKey(p)
    PROVE  FilesInv' /\ files[Directory(p)] \notin KeySet /\ Touched(p, OwnKey(p))
<1> USE DEF Roles, Primary, Override, Agent
<1>0. /\ Action(p) /\ at[p] = "writeKey" /\ Writing(p) /\ role[p] \in Roles
      /\ Directory(p) \in KeysDirs /\ OwnKey(p) \in Key
    BY OwnDirectory
    DEF WriteKey, WriteLastKey, Action, Step, TypeOK, Writing, WithConfig, Generating
<1>1. /\ \A q \in Procs : Writing(q) /\ Directory(q) = Directory(p) => q = p
      /\ \A r \in Roles : files[Directory(p)][r] =
                    IF r < role[p] THEN OwnKey(p) ELSE IF r = role[p] THEN Torn ELSE Absent
    BY <1>0 DEF FilesInv, OwnerInv, Left
<1>2. Touched(p, OwnKey(p))
    BY DEF WriteKey, WriteLastKey, WriteFile, Touched, Directory
<1>3. \A r \in Roles : files'[Directory(p)][r] = IF r <= role[p] THEN OwnKey(p) ELSE Absent
    BY <1>0, <1>1, <1>2 DEF Touched, TypeOK
<1>4. \A d \in KeysDirs \ {Directory(p)} : files'[d] = files[d]
    BY <1>2 DEF Touched, TypeOK
<1>5. InOrder'
    BY <1>0, <1>3, <1>4 DEF FilesInv, InOrder
<1>6. OneRunPerDirectory'
    BY <1>0, <1>3, <1>4, NotKeys DEF FilesInv, OneRunPerDirectory
<1>7. ASSUME Writing(p)'
      PROVE  /\ Directory(p)' = Directory(p)
             /\ \A r \in Roles : files'[Directory(p)][r] = Left(p, r)'
    <2>1. CASE WriteKey(p)
        <3>1. /\ cfg' = cfg /\ at'[p] = "createKey" /\ role'[p] = role[p] + 1
            BY <2>1 DEF WriteKey, Goto, TypeOK
        <3> QED
            BY <1>0, <1>3, <3>1 DEF Left, Directory, OwnKey
    <2>2. CASE WriteLastKey(p)
        BY <1>7, <2>2 DEF WriteLastKey, End, Goto, Writing, TypeOK
    <2> QED
        BY <2>1, <2>2
<1>8. OwnerInv'
    BY <1>0, <1>1, <1>2, <1>7, OwnerStays
<1>9. files[Directory(p)] \notin KeySet
    BY <1>0, <1>1, NotKeys DEF KeySet
<1> QED
    BY <1>2, <1>5, <1>6, <1>8, <1>9 DEF FilesInv

\* So does every step of a process, and a directory that is complete stays so.
LEMMA ActionFiles ==
    ASSUME TypeOK, MemoryInv, FilesInv, NEW p \in Procs, Action(p)
    PROVE  /\ FilesInv'
           /\ \A d \in KeysDirs : files[d] \in KeySet => files'[d] = files[d]
<1>1. CASE CreateKey(p)
    <2>1. files' = files \/ (files[Directory(p)][role[p]] = Absent /\ Touched(p, Torn))
        BY <1>1 DEF CreateKey, WriteFile, Touched, Directory
    <2>2. role[p] \in Roles
        BY DEF TypeOK
    <2>3. \A d \in KeysDirs : files[d] \in KeySet => files'[d] = files[d]
        BY <2>1, <2>2, NotKeys DEF Touched, KeySet, TypeOK
    <2> QED
        BY <1>1, <2>3, CreateKeyFiles
<1>2. CASE WriteKey(p) \/ WriteLastKey(p)
    BY <1>2, WriteKeyFiles DEF Touched, TypeOK
<1>3. CASE ~CreateKey(p) /\ ~WriteKey(p) /\ ~WriteLastKey(p)
    BY <1>3, FilesStay, QuietStep
<1> QED
    BY <1>1, <1>2, <1>3

-----------------------------------------------------------------------------
(* What has been printed. *)

\* A vault comes into view only when it is built from three keys on disk.
LEMMA NewVaults ==
    ASSUME TypeOK, MemoryInv, NEW p \in Procs, Action(p)
    PROVE  \A v \in Vaults' : v \in Vaults \/ \E d \in KeysDirs : files[d] = v.keys
<1> USE SetupSentinels DEF TypeOK, Vaults, Goto, Continue, End, disk, core, procs, shown
<1>1. CASE LoadKeys(p)
    <2>1. CASE End(p)
        BY <1>1, <2>1 DEF LoadKeys
    <2>2. CASE /\ files[Directory(p)] \in KeySet
               /\ DescriptorAccepted(cfg[p].csv_blocks, cfg[p].bitcoin.network)
               /\ vault' = [vault EXCEPT ![p] = Built(p)]
        <3>1. files[Directory(p)] = Built(p).keys /\ Directory(p) \in KeysDirs
            BY <1>1, <2>2, BuiltIsVault, OwnDirectory DEF LoadKeys, WithConfig
        <3> QED
            BY <1>1, <2>2, <3>1 DEF LoadKeys
    <2> QED
        BY <1>1, <2>1, <2>2 DEF LoadKeys, Directory
<1>2. CASE CreateConfig(p) \/ TruncateConfig(p) \/ WriteConfig(p)
    BY <1>2 DEF CreateConfig, TruncateConfig, WriteConfig
<1>3. CASE CreateKey(p) \/ WriteKey(p) \/ WriteLastKey(p)
    BY <1>3 DEF CreateKey, WriteKey, WriteLastKey
<1>4. CASE TruncateState(p)
    BY <1>4 DEF TruncateState
<1>5. CASE WriteState(p)
    BY <1>5 DEF WriteState, MemoryInv, WithVault
<1>6. CASE LoadWallet(p) \/ CreateWallet(p) \/ ReloadWallet(p)
    BY <1>6 DEF LoadWallet, CreateWallet, ReloadWallet
<1>7. CASE Import(p)
    BY <1>7 DEF Import, MemoryInv, WithVault
<1>8. CASE StartInitConfig(p, TRUE) \/ StartInitConfig(p, FALSE)
    BY <1>8 DEF StartInitConfig
<1>9. CASE StartInitVault(p, TRUE) \/ StartInitVault(p, FALSE) \/ StartGenerate(p)
    BY <1>9 DEF StartInitVault, StartGenerate
<1>10. CASE Address(p)
    BY <1>10 DEF Address, StateLoads
<1>11. CASE StartImport(p)
    BY <1>11 DEF StartImport, StateLoads
<1>12. CASE Kill(p)
    BY <1>12 DEF Kill
<1> QED
    BY <1>1, <1>2, <1>3, <1>4, <1>5, <1>6, <1>7, <1>8, <1>9, <1>10, <1>11, <1>12
    DEF Action, Step, Start

\* Keys are announced when the last one is written next to its two siblings.
LEMMA NewKeys ==
    ASSUME TypeOK, MemoryInv, FilesInv, NEW p \in Procs, Action(p),
           NEW k \in announced', k \notin announced
    PROVE  \A r \in Roles : files'[k.dir][r] = k
<1> USE DEF disk, core, procs, shown
<1>1. WriteLastKey(p)
    BY DEF Action, Step, Start, CreateConfig, TruncateConfig, WriteConfig, CreateKey,
           WriteKey, LoadKeys, TruncateState, WriteState, LoadWallet, CreateWallet,
           ReloadWallet, Import, StartInitConfig, StartInitVault, StartGenerate,
           Address, StartImport, Kill
<1>2. k = OwnKey(p) /\ k.dir = Directory(p) /\ role[p] = Agent /\ at[p] = "writeKey"
    BY <1>1 DEF WriteLastKey, OwnKey, Directory
<1>3. Directory(p) \in KeysDirs
    BY <1>2, OwnDirectory DEF WithConfig, Generating
<1>4. \A r \in Roles : files[Directory(p)][r] = Left(p, r)
    BY <1>2 DEF FilesInv, OwnerInv, Writing
<1>5. Touched(p, OwnKey(p))
    BY <1>1, WriteKeyFiles
<1> QED
    BY <1>2, <1>3, <1>4, <1>5 DEF Left, Touched, TypeOK, Roles, Primary, Override, Agent

\* A complete directory stays, so whatever was seen is kept.
LEMMA ActionKeeps ==
    ASSUME TypeOK, TypeOK', MemoryInv, FilesInv, KeptInv, NEW p \in Procs, Action(p)
    PROVE  KeptInv'
<1>1. \A d \in KeysDirs : files[d] \in KeySet => files'[d] = files[d]
    BY ActionFiles
<1>2. ASSUME NEW v \in Vaults'
      PROVE  \E d \in KeysDirs : files'[d] = v.keys
    <2>1. v.keys \in KeySet
        BY <1>2 DEF Vaults, TypeOK, VaultStates
    <2>2. PICK d \in KeysDirs : files[d] = v.keys
        BY <1>2, NewVaults DEF KeptInv
    <2> QED
        BY <1>1, <2>1, <2>2
<1>3. ASSUME NEW k \in announced'
      PROVE  \A r \in Roles : files'[k.dir][r] = k
    <2>1. CASE k \in announced
        <3>1. k \in Key /\ k.dir \in KeysDirs /\ \A r \in Roles : files[k.dir][r] = k
            BY <2>1 DEF KeptInv, TypeOK, Key
        <3>2. files[k.dir] \in KeySet
            BY <3>1 DEF TypeOK, KeySet
        <3> QED
            BY <1>1, <3>1, <3>2
    <2>2. CASE k \notin announced
        BY <1>3, <2>2, NewKeys
    <2> QED
        BY <2>1, <2>2
<1> QED
    BY <1>2, <1>3 DEF KeptInv

-----------------------------------------------------------------------------
(* The theorems. *)

\* Steps that are no command's, and stuttering.
LEMMA OtherSteps ==
    ASSUME SetupInv, trouble' \in 0..MaxTrouble,
           NewKeysDir \/ RestartCore \/ EditConfig \/ UNCHANGED vars
    PROVE  SetupInv'
<1>1. UNCHANGED <<files, state, watched, procs, shown>>
    BY DEF NewKeysDir, RestartCore, EditConfig, vars, disk, core
<1>2. TypeOK'
    BY <1>1 DEF SetupInv, TypeOK, NewKeysDir, RestartCore, EditConfig, ConfigsAccepted,
                vars, disk, core, procs, shown
<1>3. MemoryInv' /\ InOrder' /\ OneRunPerDirectory'
    BY <1>1 DEF SetupInv, MemoryInv, InOrder, OneRunPerDirectory, procs
<1>4. OwnerInv'
    BY <1>1 DEF SetupInv, OwnerInv, Writing, Directory, Left, OwnKey, procs
<1>5. KeptInv'
    BY <1>1 DEF SetupInv, KeptInv, Vaults, procs, shown
<1> QED
    BY <1>2, <1>3, <1>4, <1>5 DEF SetupInv

\* The trouble is counted.
LEMMA TroubleBounded ==
    ASSUME TypeOK, [Next]_vars
    PROVE  trouble' \in 0..MaxTrouble
<1>1. CASE Trouble
    BY <1>1, SetupSentinels DEF TypeOK, Trouble
<1>2. CASE trouble' = trouble
    BY <1>2 DEF TypeOK
<1>3. CASE \E p \in Procs : Step(p)
    BY <1>2, <1>3 DEF Step, CreateConfig, TruncateConfig, WriteConfig, CreateKey, WriteKey,
                WriteLastKey, LoadKeys, TruncateState, WriteState, LoadWallet,
                CreateWallet, ReloadWallet, Import
<1> QED
    BY <1>1, <1>2, <1>3 DEF Next, Operate, NewKeysDir, vars

\* The invariant is inductive.
THEOREM SetupInvariant == Spec => []SetupInv
<1>1. ASSUME SetupInv, [Next]_vars
      PROVE  SetupInv'
    <2>1. trouble' \in 0..MaxTrouble
        BY <1>1, TroubleBounded DEF SetupInv
    <2>2. ASSUME NEW p \in Procs, Action(p)
          PROVE  SetupInv'
        <3>1. TypeOK' /\ MemoryInv'
            BY <1>1, <2>1, <2>2, ActionTypes, ActionMemory DEF SetupInv
        <3>2. FilesInv'
            BY <1>1, <2>2, ActionFiles DEF SetupInv, FilesInv
        <3>3. KeptInv'
            BY <1>1, <2>2, <3>1, ActionKeeps DEF SetupInv, FilesInv
        <3> QED
            BY <3>1, <3>2, <3>3 DEF SetupInv, FilesInv
    <2>3. CASE NewKeysDir \/ RestartCore \/ EditConfig \/ UNCHANGED vars
        BY <1>1, <2>1, <2>3, OtherSteps
    <2> QED
        BY <1>1, <2>2, <2>3, NextIsAction
<1> QED
    BY InitSetup, <1>1, PTL DEF Spec

\* Every file, and every vault in memory or in Core, is of the types that the
\* commands expect: init-vault never builds a vault from a file that is not whole
\* (bin/tesaurus.rs:109-169, keys.rs:66-85).
THEOREM SetupTypes == Spec => []TypeOK
BY SetupInvariant, PTL DEF SetupInv

\* Whatever number of keys generate race for a directory, and wherever they are
\* killed, its keys come from one of them (keys.rs:186-202).
THEOREM DirectoriesNeverMix == Spec => []OneRunPerDirectory
BY SetupInvariant, PTL DEF SetupInv

\* What was announced and the vaults of every address that was printed keep their
\* three keys on disk, whatever is run, killed or edited afterwards
\* (keys.rs:89-126, wallet.rs:64-91, bin/tesaurus.rs:125-145).
THEOREM PrintedKeysStay == Spec => []NothingPrintedIsLost
<1>1. SetupInv => NothingPrintedIsLost
    BY DEF SetupInv, KeptInv, Vaults, NothingPrintedIsLost
<1> QED
    BY SetupInvariant, <1>1, PTL

=============================================================================
