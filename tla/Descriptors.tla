---------------------------- MODULE Descriptors ----------------------------
(***************************************************************************)
(* The life of a SecureSocket object (src/socket.cpp; src/secure-socket.cpp *)
(* for what the derived class adds): the descriptor it believes to have,   *)
(* and what it keeps of a connection, through listen, connect, accept,     *)
(* close, copy, move and destruction.  A call is one step: what is at      *)
(* stake is not interleaving but which number is left where by each way    *)
(* out of a call.                                                          *)
(*                                                                         *)
(* Descriptor 0 is standard input; in `fd` 0 means that there is none.     *)
(***************************************************************************)
EXTENDS Integers, FiniteSets

CONSTANTS
  Objects,    (* variables of type SecureSocket                            *)
  Fds,        (* descriptors above the standard ones                       *)
  Breaches,   (* which of the Rules the callers break                      *)
  Nobody

(* What a caller of the class must know.                                   *)
(*   "stale"     nothing is opened while a socket keeps the number that a  *)
(*               refused bind() has left in it                             *)
(*   "unopened"  close_fd is not called on a socket without a descriptor   *)
(*   "overwrite" a socket with a descriptor is not connected, and nothing  *)
(*               is assigned to it                                         *)
(*   "copy"      a socket with a descriptor is not copied                  *)
(*   "reuse"     a socket that was closed is not opened again before       *)
(*               another has been assigned to it                           *)
Rules == {"stale", "unopened", "overwrite", "copy", "reuse"}

ASSUME DescriptorAssumption ==
  /\ Fds \subseteq Nat \ 0 .. 2
  /\ Breaches \subseteq Rules
  /\ {Nobody, "std", "lost"} \cap Objects = {}
  /\ Nobody \notin {"std", "lost"}

VARIABLES
  alive,      (* the objects that are constructed and not destroyed        *)
  fd,         (* Socket::fd                                                *)
  listening,  (* the objects whose Socket::listening is set                *)
  kept,       (* what buf and the session key come from: a connection of   *)
              (* the socket that is "open" or "over", or "none"            *)
  spent,      (* the objects that close_fd was called on and nothing was   *)
              (* assigned to since                                         *)
  kernel,     (* the object that each open descriptor was opened for or    *)
              (* moved to; "std"; "lost" once no socket knows it; Nobody   *)
  linked      (* the descriptors of established connections                *)

vars == <<alive, fd, listening, kept, spent, kernel, linked>>

Numbers == Fds \cup {0}

TypeOK ==
  /\ alive \in SUBSET Objects
  /\ fd \in [Objects -> Numbers \cup {-1}]
  /\ listening \in SUBSET Objects
  /\ kept \in [Objects -> {"none", "open", "over"}]
  /\ spent \in SUBSET Objects
  /\ kernel \in [Numbers -> Objects \cup {"std", "lost", Nobody}]
  /\ linked \in SUBSET Numbers

Init ==
  /\ alive = {}
  /\ fd = [o \in Objects |-> 0]
  /\ listening = {}
  /\ kept = [o \in Objects |-> "none"]
  /\ spent = {}
  /\ kernel = [n \in Numbers |-> IF n = 0 THEN "std" ELSE Nobody]
  /\ linked = {}

-----------------------------------------------------------------------------
(* The kernel gives out the lowest number that is free.                    *)
Lowest(n, open) ==
  /\ open[n] = Nobody
  /\ \A m \in Numbers : open[m] = Nobody => n <= m

(* close(): an error, and no change, when the number is not open.          *)
Close(n) ==
  /\ kernel' = [m \in Numbers |-> IF m = n THEN Nobody ELSE kernel[m]]
  /\ linked' = linked \ {n}

Keeps(rule) == rule \notin Breaches

(* What a caller sees to before it opens socket o.                         *)
MayOpen(o) ==
  /\ o \in alive
  /\ Keeps("reuse") => o \notin spent
  /\ Keeps("stale") =>
       \A p \in alive : fd[p] > 0 => kernel[fd[p]] # Nobody

-----------------------------------------------------------------------------
(* Mutant: fd is what the memory held before, which may be 1.              *)
ConstructRaw(o) ==
  /\ o \notin alive
  /\ alive' = alive \cup {o}
  /\ \E n \in {0, 1} : fd' = [fd EXCEPT ![o] = n]
  /\ UNCHANGED <<listening, kept, spent, kernel, linked>>

Construct(o) ==
  /\ o \notin alive
  /\ alive' = alive \cup {o}
  /\ fd' = [fd EXCEPT ![o] = 0]
  /\ listening' = listening \ {o}
  /\ kept' = [kept EXCEPT ![o] = "none"]
  /\ spent' = spent \ {o}
  /\ UNCHANGED <<kernel, linked>>

Destroy(o) ==
  /\ o \in alive
  /\ alive' = alive \ {o}
  /\ IF fd[o] > 2 THEN Close(fd[o]) ELSE UNCHANGED <<kernel, linked>>
  /\ UNCHANGED <<fd, listening, kept, spent>>

(* Mutant: a listening socket listens once more, with a new descriptor.    *)
TryListenAgain(o) ==
  /\ MayOpen(o)
  /\ \E n \in Numbers :
       /\ Lowest(n, kernel)
       /\ fd' = [fd EXCEPT ![o] = n]
       /\ kernel' = [kernel EXCEPT ![n] = o]
       /\ listening' = listening \cup {o}
  /\ UNCHANGED <<alive, kept, spent, linked>>

(* try_listen.  Attempts at other addresses do not matter: each closes     *)
(* what it has opened, so that the next one gets the same number.          *)
TryListen(o) ==
  /\ MayOpen(o)
  /\ fd[o] = 0
  /\ \/ (* socket() fails for the last address.                            *)
        /\ fd' = [fd EXCEPT ![o] = -1]
        /\ UNCHANGED <<listening, kernel>>
     \/ \E n \in Numbers :
          /\ Lowest(n, kernel)
          /\ fd' = [fd EXCEPT ![o] = n]
          /\ \/ (* bind() is refused: the number stays.                    *)
                UNCHANGED <<listening, kernel>>
             \/ (* evutil_make_socket_nonblocking or listen() fails, or    *)
                (* nothing does.                                           *)
                /\ kernel' = [kernel EXCEPT ![n] = o]
                /\ listening' \in {listening, listening \cup {o}}
  /\ UNCHANGED <<alive, kept, spent, linked>>

(* try_connect.  A socket that connect() was refused for stays open: it is *)
(* lost when there is another address to try.  One descriptor is lost at   *)
(* most (localhost has two addresses).                                     *)
TryConnect(o) ==
  /\ MayOpen(o)
  /\ Keeps("overwrite") => fd[o] <= 0
  /\ \E before \in {kernel} \cup
                   {[kernel EXCEPT ![n] = "lost"] :
                      n \in {n \in Numbers : Lowest(n, kernel)}} :
       \/ /\ kernel' = before
          /\ fd' = [fd EXCEPT ![o] = -1]
          /\ UNCHANGED linked
       \/ \E n \in Numbers :
            /\ Lowest(n, before)
            /\ kernel' = [before EXCEPT ![n] = o]
            /\ fd' = [fd EXCEPT ![o] = n]
            /\ linked' \in {linked, linked \cup {n}}
  /\ UNCHANGED <<alive, listening, kept, spent>>

(* Mutant: try_accept does not ask whether the other socket is in use.     *)
TryAcceptAnyway(o, p) ==
  /\ o \in alive \cap listening /\ fd[o] # -1 /\ kernel[fd[o]] # Nobody
  /\ MayOpen(p)
  /\ \E n \in Numbers :
       /\ Lowest(n, kernel)
       /\ kernel' = [kernel EXCEPT ![n] = p]
       /\ fd' = [fd EXCEPT ![p] = n]
       /\ linked' = linked \cup {n}
  /\ UNCHANGED <<alive, listening, kept, spent>>

(* try_accept(p) of a listening socket o.                                  *)
TryAccept(o, p) ==
  /\ o \in alive \cap listening /\ fd[o] # -1 /\ kernel[fd[o]] # Nobody
  /\ MayOpen(p)
  /\ fd[p] <= 0
  /\ \E n \in Numbers :
       /\ Lowest(n, kernel)
       /\ linked' = linked \cup {n}
       /\ \/ /\ kernel' = [kernel EXCEPT ![n] = p]
             /\ fd' = [fd EXCEPT ![p] = n]
          \/ (* evutil_make_socket_nonblocking fails: nobody closes it.    *)
             /\ kernel' = [kernel EXCEPT ![n] = "lost"]
             /\ UNCHANGED fd
  /\ UNCHANGED <<alive, listening, kept, spent>>

-----------------------------------------------------------------------------
(* Something is received into the buffer, or a handshake completed.        *)
Receive(o) ==
  /\ o \in alive /\ fd[o] \in linked
  /\ kept' = [kept EXCEPT ![o] = "open"]
  /\ UNCHANGED <<alive, fd, listening, spent, kernel, linked>>

(* The buffer is read or cleared, and no key was agreed on.                *)
ClearBuffer(o) ==
  /\ o \in alive
  /\ kept' = [kept EXCEPT ![o] = "none"]
  /\ UNCHANGED <<alive, fd, listening, spent, kernel, linked>>

(* close_fd, called by the owner or by try_recv when the peer has closed.  *)
(* The buffer, is_secure and the key stay.                                 *)
CloseFd(o) ==
  /\ o \in alive
  /\ Keeps("unopened") => fd[o] # 0
  /\ Close(fd[o])
  /\ fd' = [fd EXCEPT ![o] = 0]
  /\ listening' = listening \ {o}
  /\ kept' = [kept EXCEPT ![o] = IF @ = "none" THEN "none" ELSE "over"]
  /\ spent' = spent \cup {o}
  /\ UNCHANGED alive

-----------------------------------------------------------------------------
(* A new object, or one that is assigned to.                               *)
Target(p) == p \in alive /\ Keeps("overwrite") => fd[p] <= 0

(* The objects of S, with p in it if o was.                                *)
Passed(S, o, p) == IF o \in S THEN S \cup {p} ELSE S \ {p}

(* Copying.  The copy constructor of SecureSocket copies the buffer, not   *)
(* the session's key.                                                      *)
Copy(o, p) ==
  /\ o \in alive /\ o # p
  /\ Target(p)
  /\ Keeps("copy") => fd[o] <= 0
  /\ alive' = alive \cup {p}
  /\ fd' = [fd EXCEPT ![p] = fd[o]]
  /\ listening' = Passed(listening, o, p)
  /\ \E k \in {kept[o]} \cup (IF p \in alive THEN {} ELSE {"none"}) :
       kept' = [kept EXCEPT ![p] = k]
  /\ spent' = Passed(spent, o, p)
  /\ UNCHANGED <<kernel, linked>>

(* Mutants: the socket that is moved from keeps its number; its buffer.    *)
MoveKeepsFd(o, p) ==
  /\ o \in alive /\ o # p
  /\ Target(p)
  /\ alive' = alive \cup {p}
  /\ fd' = [fd EXCEPT ![p] = fd[o]]
  /\ listening' = Passed(listening, o, p) \ {o}
  /\ kept' = [kept EXCEPT ![p] = kept[o], ![o] = "none"]
  /\ spent' = Passed(spent, o, p) \ {o}
  /\ kernel' = [n \in Numbers |-> IF kernel[n] = o THEN p ELSE kernel[n]]
  /\ UNCHANGED linked

MoveKeepsBuffer(o, p) ==
  /\ o \in alive /\ o # p
  /\ Target(p)
  /\ alive' = alive \cup {p}
  /\ fd' = [fd EXCEPT ![p] = fd[o], ![o] = 0]
  /\ listening' = Passed(listening, o, p) \ {o}
  /\ kept' = [kept EXCEPT ![p] = kept[o],
                          ![o] = IF @ = "none" THEN "none" ELSE "over"]
  /\ spent' = Passed(spent, o, p) \ {o}
  /\ kernel' = [n \in Numbers |-> IF kernel[n] = o THEN p ELSE kernel[n]]
  /\ UNCHANGED linked

(* Moving, by constructor or assignment.                                   *)
Move(o, p) ==
  /\ o \in alive /\ o # p
  /\ Target(p)
  /\ alive' = alive \cup {p}
  /\ fd' = [fd EXCEPT ![p] = fd[o], ![o] = 0]
  /\ listening' = Passed(listening, o, p) \ {o}
  /\ kept' = [kept EXCEPT ![p] = kept[o], ![o] = "none"]
  /\ spent' = Passed(spent, o, p) \ {o}
  /\ kernel' = [n \in Numbers |-> IF kernel[n] = o THEN p ELSE kernel[n]]
  /\ UNCHANGED linked

Next ==
  \E o \in Objects :
    \/ Construct(o) \/ Destroy(o) \/ TryListen(o) \/ TryConnect(o)
    \/ Receive(o) \/ ClearBuffer(o) \/ CloseFd(o)
    \/ \E p \in Objects : TryAccept(o, p) \/ Copy(o, p) \/ Move(o, p)

Spec == Init /\ [][Next]_vars

-----------------------------------------------------------------------------
(* The number in a socket is that of a descriptor opened for it or moved   *)
(* to it, or of none: what close_fd and the destructor close, and what     *)
(* the peer's data is read from, never belongs to another socket.          *)
OwnsItsDescriptor ==
  /\ \A o \in alive : fd[o] > 0 => kernel[fd[o]] \in {o, Nobody}
  /\ \A o \in alive \cap listening : fd[o] > 0 /\ kernel[fd[o]] = o

(* Only the early returns of try_connect and try_accept lose a descriptor: *)
(* any other that is open has an object that will close it.                *)
NoDescriptorLeak ==
  \A n \in Fds :
    kernel[n] \in Objects => kernel[n] \in alive /\ fd[kernel[n]] = n

(* A socket with a descriptor has no data and no key of a connection that  *)
(* is over: close_fd keeps them, and whoever opens the socket again would  *)
(* read them as the new peer's.                                            *)
FreshBuffer == \A o \in alive : fd[o] > 0 => kept[o] # "over"

=============================================================================
