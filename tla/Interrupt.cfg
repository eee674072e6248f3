SPECIFICATION FairSpec
CONSTANTS
  fib = fib
  plainFib = plainFib
  left = left
  right = right
  loop = loop
  next = next
  Workers = {w1, w2}
  Clients = {c1}
  Jobs = {fib, plainFib, left, right, loop}
  Interruptible = {fib, loop}
  Plain = {plainFib}
  Posted <- EitherForks
  Subtasks <- ForkTwo
  Catching = {fib}
  Stops = TRUE
  None = None
INVARIANT InterruptsItsJob
PROPERTY InterruptionsBlockNobody
