------------------------------- MODULE Token -------------------------------
(***************************************************************************)
(* API authentication (internal/api/auth.go): guard and patrol share one   *)
(* token file, which each makes at its start if it finds none.  Nothing    *)
(* locks the file.                                                         *)
(***************************************************************************)
EXTENDS Naturals

CONSTANTS
  Daemon,     \* the processes with an API
  MaxTokens,  \* bound: tokens generated
  MaxEnds     \* bound: deaths and failed starts

ASSUME TokenAssumption == MaxTokens \in Nat /\ MaxEnds \in Nat

VARIABLES
  required,   \* the daemons whose configuration has require_auth
  tokenFile,  \* the token in it, 0 when there is no file or nothing in it
  daemon,     \* each process, with the token in its memory
  minted, ends,
  raced       \* history: somebody found no token while another was making one

tokenVars == <<required, tokenFile, daemon, minted, ends, raced>>

Down == [pc |-> "down", token |-> 0]

TokenInit ==
  /\ required \in SUBSET Daemon
  /\ tokenFile = 0
  /\ daemon = [d \in Daemon |-> Down]
  /\ minted = 0 /\ ends = 0 /\ raced = FALSE

Up(d) == daemon[d].pc = "up"

Enter(d, pc, t) == daemon' = [daemon EXCEPT ![d] = [pc |-> pc, token |-> t]]

Start(d) ==
  /\ daemon[d] = Down
  /\ Enter(d, IF d \in required THEN "ensure" ELSE "up", 0)
  /\ UNCHANGED <<required, tokenFile, minted, ends, raced>>

NeverFound == FALSE    \* mutant: the file is not read
Found == tokenFile # 0

ReadToken(d) ==
  /\ daemon[d].pc = "ensure"
  /\ IF Found THEN /\ Enter(d, "up", tokenFile)
                   /\ UNCHANGED <<minted, raced>>
              ELSE /\ minted < MaxTokens /\ minted' = minted + 1
                   /\ Enter(d, "open", minted')
                   /\ raced' = (raced \/ \E x \in Daemon : daemon[x].pc \in {"open", "fill"})
  /\ UNCHANGED <<required, tokenFile, ends>>

(* os.WriteFile empties the file ... *)
OpenFile(d) ==
  /\ daemon[d].pc = "open"
  /\ tokenFile' = 0
  /\ Enter(d, "fill", daemon[d].token)
  /\ UNCHANGED <<required, minted, ends, raced>>

(* ... and writes it. *)
FillFile(d) ==
  /\ daemon[d].pc = "fill"
  /\ tokenFile' = daemon[d].token
  /\ Enter(d, "up", daemon[d].token)
  /\ UNCHANGED <<required, minted, ends, raced>>

(* The process ends or dies, anywhere; an error of EnsureToken is fatal. *)
End(d) ==
  /\ daemon[d] # Down /\ ends < MaxEnds
  /\ ends' = ends + 1
  /\ Enter(d, "down", 0)
  /\ UNCHANGED <<required, tokenFile, minted, raced>>

(* BearerMiddleware, put in front of the API by WrapMux. *)
Authorised(d, t) == Up(d) /\ (d \in required => t # 0 /\ t = daemon[d].token)

TokenTypeOK ==
  /\ required \subseteq Daemon /\ tokenFile \in 0 .. MaxTokens /\ minted \in 0 .. MaxTokens
  /\ daemon \in [Daemon -> [pc : {"down", "ensure", "open", "fill", "up"}, token : 0 .. MaxTokens]]
  /\ ends \in 0 .. MaxEnds /\ raced \in BOOLEAN
===========================================================================
