SPECIFICATION Spec
CONSTANTS
    num_interfaces = 2
    num_workers = 2
INVARIANT QueueToItsWorker
