----------------------------- MODULE WalletFile -----------------------------
(***************************************************************************)
(* The key file of the wallet (core/wallet.c, file_rotate of lib/file and  *)
(* config_write of lib/config) and the commands of apps/cli/main.c that    *)
(* read and write it: the first launch, -a, -e and a session with or       *)
(* without -p.                                                             *)
(*                                                                         *)
(* Saving is five steps on the file system and the process may die between *)
(* any two of them: wallet.dat.0 is unlinked, wallet.dat is renamed to it, *)
(* wallet.dat is created, its lines are written in the order of their      *)
(* names, numKeys last.  A file without numKeys holds no key for the       *)
(* program; the salt, which sorts first, is what says it is encrypted.     *)
(* wallet_save_keys does not look at the result of file_rotate: when a part *)
(* of it fails, wallet.dat is still there and is overwritten in place.     *)
(* One process uses the wallet at a time: leveldb locks txdb.              *)
(***************************************************************************)
EXTENDS Integers, FiniteSets

CONSTANTS Key, Pass, Plain, MaxCrash

ASSUME WalletFileAssumption ==
    /\ IsFiniteSet(Key) /\ Plain \notin Pass /\ MaxCrash \in Nat

File    == [here : BOOLEAN, keys : SUBSET Key, pass : Pass \union {Plain}]
NoFile  == [here |-> FALSE, keys |-> {}, pass |-> Plain]
Created == [NoFile EXCEPT !.here = TRUE]

VARIABLES
    file,       \* wallet.dat
    backup,     \* wallet.dat.0
    proc,       \* what the process is doing: the step of a save, "session", "none"
    new,        \* the keys and the passphrase being saved
    loaded,     \* hash_keys of the session
    typed,      \* the passphrase it was given, Plain: none
    scripts,    \* wallet->filterScripts
    given,      \* the keys of the saves that were completed
    pass,       \* the passphrase of the last save that was completed
    inPlace,    \* wallet.dat was truncated in place and is not complete again
    damaged,    \* a save was cut short and the program was run again
    crashes

fileVars == <<file, backup, proc, new, loaded, typed, scripts, given, pass, inPlace,
              damaged, crashes>>

FileTypeOK ==
    /\ file \in File /\ backup \in File /\ new \in File
    /\ proc \in {"none", "session", "rotate", "rename", "create", "write", "numKeys"}
    /\ loaded \subseteq Key /\ scripts \subseteq Key /\ given \subseteq Key
    /\ damaged \in BOOLEAN /\ inPlace \in BOOLEAN /\ typed \in Pass \union {Plain}
    /\ pass \in Pass \union {Plain} /\ crashes \in 0 .. MaxCrash

-----------------------------------------------------------------------------
(* wallet_open_file, wallet_load_keys *)

OpensAlways(p) == TRUE

\* Every private key is checked against the passphrase; with no key, any fits.
Opens(p) == file.keys = {} \/ p = file.pass

\* WALLET_ENCRYPTED_LOCKED, when no passphrase is given.
Locked == file.pass # Plain

-----------------------------------------------------------------------------
FileInit ==
    /\ file = NoFile /\ backup = NoFile /\ proc = "none" /\ new = NoFile
    /\ loaded = {} /\ typed = Plain /\ scripts = {} /\ given = {}
    /\ pass = Plain /\ inPlace = FALSE /\ damaged = FALSE /\ crashes = 0

\* A save begins; it is over a damaged file if the last one was cut short.
BeginSave(keys, p) ==
    /\ proc = "none" /\ proc' = "rotate"
    /\ new' = [here |-> TRUE, keys |-> keys, pass |-> p]
    /\ damaged' = (damaged \/ ~(given \subseteq file.keys))
    /\ UNCHANGED <<file, backup, loaded, typed, scripts, given, pass, inPlace, crashes>>

\* bitc_check_wallet, first thing at every launch: without a file, a new plain
\* wallet with one key.
CheckWallet(k) == ~file.here /\ k \notin given /\ BeginSave({k}, Plain)

\* -a; on an encrypted wallet the process dies before it saves.
AddAddress(k) ==
    /\ file.here /\ ~Locked /\ k \notin file.keys \union given
    /\ BeginSave(file.keys \union {k}, Plain)

\* -e: the old passphrase is verified first.
Encrypt(old, p) ==
    /\ file.here /\ (Locked => Opens(old))
    /\ BeginSave(file.keys, p)

-----------------------------------------------------------------------------
(* wallet_save_keys *)

Step(from, to) == proc = from /\ proc' = to
Only(v) == UNCHANGED <<loaded, typed, scripts, damaged, crashes>> /\ UNCHANGED v

RotateUnlinkBoth ==
    /\ Step("rotate", "rename") /\ backup' = NoFile /\ file' = NoFile
    /\ Only(<<new, given, pass, inPlace>>)

\* file_rotate(wallet.dat, 1): unlink wallet.dat.0 if it is there.  If that
\* fails there is no rename, and the save goes on.
RotateUnlink ==
    /\ \/ Step("rotate", "rename") /\ backup' = NoFile
       \/ backup.here /\ Step("rotate", "create") /\ UNCHANGED backup
    /\ Only(<<file, new, given, pass, inPlace>>)

\* Rename wallet.dat to it, which fails, unnoticed, if it is not there, and may
\* fail, unnoticed too, if it is.
RotateRename ==
    /\ Step("rename", "create")
    /\ \/ /\ backup' = IF file.here THEN file ELSE backup
          /\ file' = NoFile
       \/ file.here /\ UNCHANGED <<file, backup>>
    /\ Only(<<new, given, pass, inPlace>>)

\* file_create, which leaves a file that is there as it is, and the truncation in
\* config_write.
CreateFile ==
    /\ Step("create", "write") /\ file' = Created /\ inPlace' = file.here
    /\ Only(<<backup, new, given, pass>>)

\* encryption.salt and the keys.
WriteKeys ==
    /\ Step("write", "numKeys") /\ file' = [Created EXCEPT !.pass = new.pass]
    /\ Only(<<backup, new, given, pass, inPlace>>)

\* numKeys: the file is complete, and the process ends.
WriteNumKeys ==
    /\ Step("numKeys", "none") /\ file' = new /\ inPlace' = FALSE
    /\ given' = given \union new.keys /\ pass' = new.pass /\ new' = NoFile
    /\ Only(backup)

\* The process dies, or another call on the file system fails and it gives up.
\* A short pwrite ends a save too, and config_write returns 0: the program then
\* reports as saved what is not, and given does not count it.
Crash ==
    /\ proc \notin {"none", "session"} /\ crashes < MaxCrash
    /\ crashes' = crashes + 1 /\ proc' = "none" /\ new' = NoFile
    /\ UNCHANGED <<file, backup, loaded, typed, scripts, given, pass, inPlace, damaged>>

-----------------------------------------------------------------------------
(* A session *)

\* With p = Plain the wallet stays locked, if it is encrypted.
Run(p) ==
    /\ proc = "none" /\ file.here /\ (p # Plain => Locked /\ Opens(p))
    /\ proc' = "session" /\ loaded' = file.keys /\ scripts' = {}
    /\ typed' = p
    /\ UNCHANGED <<file, backup, new, given, pass, inPlace, damaged, crashes>>

\* wallet_get_filter_scripts: built when a filter is first matched.
GetFilterScripts ==
    /\ proc = "session" /\ scripts # loaded /\ scripts' = loaded
    /\ UNCHANGED <<file, backup, proc, new, loaded, typed, given, pass, inPlace, damaged,
                   crashes>>

\* wallet_close
Close ==
    /\ proc = "session" /\ proc' = "none"
    /\ loaded' = {} /\ typed' = Plain /\ scripts' = {}
    /\ UNCHANGED <<file, backup, new, given, pass, inPlace, damaged, crashes>>

FileNext ==
    \/ \E k \in Key : CheckWallet(k) \/ AddAddress(k)
    \/ \E old, p \in Pass : Encrypt(old, p)
    \/ RotateUnlink \/ RotateRename \/ CreateFile \/ WriteKeys \/ WriteNumKeys \/ Crash
    \/ \E p \in Pass \union {Plain} : Run(p)
    \/ GetFilterScripts \/ Close

FileSpec == FileInit /\ [][FileNext]_fileVars

-----------------------------------------------------------------------------
(* Properties *)

\* Wherever a save is cut short, one of the two files still holds every key
\* of an earlier one, under the passphrase of the last complete save.  This
\* lasts until the program is run again on what a cut save left; and while a save
\* whose rotation failed rewrites wallet.dat in place, no file need hold them.
KeysRecoverable ==
    ~damaged /\ ~inPlace /\ given # {} =>
        \E f \in {file, backup} : given \subseteq f.keys /\ f.pass = pass

\* A session on a file that holds every given key watches all of them, and if
\* the last complete save was encrypted, has the private keys only if it was
\* given that passphrase.
SessionComplete ==
    proc = "session" /\ given # {} /\ given \subseteq file.keys /\ ~damaged =>
        /\ given \subseteq loaded /\ scripts \in {{}, loaded}
        /\ typed # Plain \/ ~Locked => typed = pass

-----------------------------------------------------------------------------
(* A claim of the documentation that does not hold: see README.md *)

\* README.md:135 says that the address is generated the first time the app is
\* launched.
FirstLaunchOnly ==
    [][\A k \in Key : CheckWallet(k) => given = {}]_fileVars
=============================================================================
