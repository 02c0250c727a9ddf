SPECIFICATION Spec
CONSTANTS
  t1 = t1
  t2 = t2
  b1 = b1
  b2 = b2
  b3 = b3
  NoBuffer = NoBuffer
  Tasks <- MCTasks
  Buffers <- MCBuffers
  Syscalls <- MCSyscalls
  SyscallsOf <- MCSyscallsOf
  HasScratch <- MCTasks
  UsableScratchSize <- MCUsableScratchSize
INVARIANT TypeOK
INVARIANT ReplayMatchesMemory
INVARIANT SavedDataConsumed
PROPERTY SyscallsComplete
PROPERTY AtomicSpec
