SPECIFICATION Spec
CONSTANT Table <- detectors
INVARIANTS NothingOutlivesModule HooksNeedManager LoadedMeansWatching
